---- MODULE Spec2Model ----
(***************************************************************************)
(* Model of the risk scoring engine of backend_api.py (RiskScoringEngine)  *)
(* and of the inputs it is called with, of the endpoint                    *)
(* POST /api/score-customer, of DataGenerator._calculate_risk_score and of *)
(* AICache.                                                                *)
(*                                                                         *)
(* Numbers are exact fixed-point integers or exact fractions:              *)
(*   age, bmi                  tenths            (age 29.9 is 299)         *)
(*   risk_contribution         thousandths       (0.15 is 150)             *)
(*   weight                    hundredths        (0.20 is 20)              *)
(*   weighted_score, scores    ten-thousandths   (0.1425 is 1425)          *)
(*   premiums                  cents                                       *)
(*   predicted duration        tenths of a year                            *)
(*   attrition_likelihood      thousandths                                 *)
(*   dates                     day numbers                                 *)
(* Python's round(x, k) is the half-even rounding RoundHalfEven of the     *)
(* exact value; binary floating-point error is not modelled.               *)
(***************************************************************************)
EXTENDS Integers, Sequences, FiniteSets, TLC

VARIABLES engine, today, customer_dict, result, previous,
          pattern_analyzer, cache_dir, now

vars == <<engine, today, customer_dict, result, previous,
          pattern_analyzer, cache_dir, now>>

(***************************************************************************)
(* Arithmetic                                                              *)
(***************************************************************************)
Abs(n) == IF n < 0 THEN -n ELSE n

RECURSIVE GCD(_, _)
GCD(a, b) == IF b = 0 THEN Abs(a) ELSE GCD(b, a % b)

\* the fraction n/d (d > 0) in lowest terms
Frac(n, d) == LET g == GCD(Abs(n), d) IN [n |-> n \div g, d |-> d \div g]

\* q * (n/d), reduced before multiplying so that intermediate products stay small
Times(q, n, d) ==
    LET g1 == GCD(Abs(q.n), d)
        g2 == GCD(Abs(n), q.d)
    IN  [n |-> (q.n \div g1) * (n \div g2), d |-> (q.d \div g2) * (d \div g1)]

\* round(n/d) to the nearest integer, ties to the even one (Python 3 round)
RoundHalfEven(n, d) ==
    LET fl == n \div d
        r2 == 2 * (n % d)
    IN  IF r2 < d THEN fl
        ELSE IF r2 > d THEN fl + 1
        ELSE IF fl % 2 = 0 THEN fl ELSE fl + 1

RoundFrac(q) == RoundHalfEven(q.n, q.d)

Min(a, b) == IF a <= b THEN a ELSE b
Max(a, b) == IF a >= b THEN a ELSE b

RECURSIVE SumOver(_, _)
\* sum of the column f of the rows s (pandas Series.sum)
SumOver(s, f) == IF s = <<>> THEN 0 ELSE s[1][f] + SumOver(Tail(s), f)

\* the number of rows whose boolean column f is true
Count(s, f) == Len(SelectSeq(s, LAMBDA r : r[f]))

(***************************************************************************)
(* Text values.  A str is modelled by its segments between ';' and by      *)
(* whether whitespace surrounds it; the Python None and the float NaN are  *)
(* values of their own.                                                    *)
(***************************************************************************)
Str(segs, ws) == [kind |-> "str", ws |-> ws, segs |-> segs]
T(s)          == Str(<<s>>, FALSE)
Padded(s)     == Str(<<s>>, TRUE)
PyNone        == [kind |-> "None", ws |-> FALSE, segs |-> <<>>]
NaN           == [kind |-> "nan", ws |-> FALSE, segs |-> <<>>]

\* str.lower(), on the letters that matter to the comparison with "nan"
Lower(s) ==
    IF s \in {"nan", "naN", "nAn", "nAN", "Nan", "NaN", "NAn", "NAN"} THEN "nan" ELSE s

\* variant of Strip: the whitespace is kept
Strip_nothing(v) == v

\* str.strip()
Strip(v) == Str(v.segs, FALSE)

\* str.split(';') and str.count(';')
Split(v)  == v.segs
CountSep(v) == Len(v.segs) - 1

\* variant of _normalize_string_field: another default category
_normalize_string_field_unknown(value) ==
    IF value.kind = "None" THEN T("Unknown")
    ELSE IF value.kind = "nan" THEN T("Unknown")
    ELSE LET val == Strip(value)
         IN  IF Len(val.segs) = 1 /\ Lower(val.segs[1]) \in {"nan", ""}
             THEN T("Unknown")
             ELSE val

_normalize_string_field(value) ==
    IF value.kind = "None" THEN T("None")
    ELSE IF value.kind = "nan" THEN T("None")
    ELSE LET val == Strip(value)
         IN  IF Len(val.segs) = 1 /\ Lower(val.segs[1]) \in {"nan", ""}
             THEN T("None")
             ELSE val

text_fields ==
    <<"gender", "occupation", "occupation_class", "smoking_status",
      "alcohol_consumption", "exercise_frequency", "chronic_conditions",
      "family_history", "dangerous_hobbies">>

TextFieldSet == {text_fields[i] : i \in DOMAIN text_fields}

Has(c, f) == f \in DOMAIN c

\* dict.get(field): None when the key is missing
Get(c, f) == IF Has(c, f) THEN c[f] ELSE PyNone

\* the dict of nine categorical fields and the others, as normalize_customer_inputs returns it
normalize_customer_inputs(c) ==
    [f \in (DOMAIN c) \cup TextFieldSet |->
        IF f \in TextFieldSet THEN _normalize_string_field(Get(c, f)) ELSE c[f]]

\* variant of caller_record: the normalized values are assigned to the caller's dict
caller_record_normalized_in_place(customer_in) == normalize_customer_inputs(customer_in)

\* the caller's dict after a call: normalized = dict(customer) is a copy, and the
\* assignments normalized[field] = ... go to the copy
caller_record(customer_in) == customer_in

(***************************************************************************)
(* The historical dataset: None, or a DataFrame (a sequence of rows)       *)
(***************************************************************************)
NoData          == [loaded |-> FALSE, rows |-> <<>>]
DataFrame(rows) == [loaded |-> TRUE, rows |-> rows]

\* round(cohort['risk_score_assigned'].mean(), 2), in hundredths
AvgRiskScore(cohort) ==
    RoundHalfEven(SumOver(cohort, "risk_score_assigned"), 100 * Len(cohort))

\* round(cohort['claim_filed'].mean() * 100, 2), in hundredths of a percent
ClaimRate(cohort) ==
    RoundHalfEven(10000 * Count(cohort, "claim_filed"), Len(cohort))

\* round(cohort['annual_premium_assigned'].mean(), 2), in cents
AvgPremium(cohort) ==
    RoundHalfEven(SumOver(cohort, "annual_premium_assigned"), Len(cohort))

EmptyDict == [k \in {} |-> 0]

\* the columns among cols that the DataFrame lacks, in the order they are read:
\* cohort[col] raises KeyError(col) for the first of them
MissingColumns(historical_data, cols) ==
    IF historical_data.rows = <<>> THEN <<>>
    ELSE SelectSeq(cols, LAMBDA col : col \notin DOMAIN historical_data.rows[1])

(***************************************************************************)
(* Outcomes of a call: a raised exception, or a value                      *)
(***************************************************************************)
KeyError(k) == [status |-> "error", type |-> "KeyError", arg |-> k]

IsError(x) == x.status = "error"

\* dict lookup risk_map[v]: the keys are plain strings
InKeys(map, v) ==
    v.kind = "str" /\ ~v.ws /\ Len(v.segs) = 1 /\ v.segs[1] \in DOMAIN map

ScoringStep(category, factor, value, risk, weight, weighted_score, cohort_sentence, supporting_data) ==
    [status |-> "ok", category |-> category, factor |-> factor, value |-> value,
     risk_contribution |-> risk, weight |-> weight,
     weighted_score |-> weighted_score,
     explanation |-> [cohort_sentence |-> cohort_sentence],
     supporting_data |-> supporting_data]

\* variant of Round4: round(risk * weight, 3)
Round4_three_decimals(risk, weight) == 10 * RoundHalfEven(risk * weight, 100)

\* round(risk * weight, 4): risk in thousandths, weight in hundredths
Round4(risk, weight) == RoundHalfEven(risk * weight, 10)

(***************************************************************************)
(* The twelve factor scoring functions                                     *)
(***************************************************************************)
_score_age(self, customer) ==
    IF ~Has(customer, "age") THEN KeyError(T("age")) ELSE
    LET age == customer.age
        weight == 20
        risk == IF age < 300 THEN 100
                ELSE IF age < 400 THEN 150
                ELSE IF age < 500 THEN 250
                ELSE IF age < 600 THEN 400
                ELSE IF age < 700 THEN 600
                ELSE 800
        tier == IF age < 300 THEN "under 30"
                ELSE IF age < 400 THEN "30-39"
                ELSE IF age < 500 THEN "40-49"
                ELSE IF age < 600 THEN "50-59"
                ELSE IF age < 700 THEN "60-69"
                ELSE "70+"
        age_cohort == SelectSeq(self.historical_data.rows,
                          LAMBDA r : r.age >= age - 50 /\ r.age <= age + 50)
        comparison_data ==
            IF self.historical_data.loaded /\ Len(age_cohort) > 0
            THEN [cohort_size |-> Len(age_cohort),
                  avg_risk_score |-> AvgRiskScore(age_cohort),
                  claim_rate |-> ClaimRate(age_cohort)]
            ELSE EmptyDict
    IN  IF /\ self.historical_data.loaded /\ Len(age_cohort) > 0
           /\ MissingColumns(self.historical_data, <<"risk_score_assigned", "claim_filed">>) # <<>>
        THEN KeyError(T(MissingColumns(self.historical_data, <<"risk_score_assigned", "claim_filed">>)[1]))
        ELSE
        ScoringStep("Demographics", "Age", <<age, tier>>, risk, weight,
                    Round4(risk, weight), comparison_data # EmptyDict, comparison_data)

_score_gender(self, customer) ==
    LET gender == customer.gender
        weight == 5
        risk == IF gender = T("Male") THEN 550 ELSE 450
        gender_data == SelectSeq(self.historical_data.rows, LAMBDA r : r.gender = gender)
        comparison_data ==
            IF self.historical_data.loaded /\ Len(gender_data) > 0
            THEN [cohort_size |-> Len(gender_data),
                  avg_risk_score |-> AvgRiskScore(gender_data),
                  avg_premium |-> AvgPremium(gender_data)]
            ELSE EmptyDict
    IN  IF /\ self.historical_data.loaded /\ Len(gender_data) > 0
           /\ MissingColumns(self.historical_data, <<"risk_score_assigned", "annual_premium_assigned">>) # <<>>
        THEN KeyError(T(MissingColumns(self.historical_data, <<"risk_score_assigned", "annual_premium_assigned">>)[1]))
        ELSE
        ScoringStep("Demographics", "Gender", gender, risk, weight,
                    Round4(risk, weight), comparison_data # EmptyDict, comparison_data)

occupation_risk_map ==
    [k \in {"Class I (Low Risk)", "Class II (Moderate Risk)",
            "Class III (High Risk)", "Class IV (Very High Risk)"} |->
        CASE k = "Class I (Low Risk)" -> 200
          [] k = "Class II (Moderate Risk)" -> 400
          [] k = "Class III (High Risk)" -> 700
          [] k = "Class IV (Very High Risk)" -> 900]

_score_occupation(self, customer) ==
    LET occupation == customer.occupation
        occupation_class == customer.occupation_class
        weight == 10
        risk_map == occupation_risk_map
    IN  IF ~InKeys(risk_map, occupation_class) THEN KeyError(occupation_class) ELSE
    LET risk == risk_map[occupation_class.segs[1]]
        occ_data == SelectSeq(self.historical_data.rows,
                        LAMBDA r : r.occupation_class = occupation_class)
        comparison_data ==
            IF self.historical_data.loaded /\ Len(occ_data) > 0
            THEN [cohort_size |-> Len(occ_data),
                  avg_risk_score |-> AvgRiskScore(occ_data),
                  claim_rate |-> ClaimRate(occ_data)]
            ELSE EmptyDict
    IN  IF /\ self.historical_data.loaded /\ Len(occ_data) > 0
           /\ MissingColumns(self.historical_data, <<"risk_score_assigned", "claim_filed">>) # <<>>
        THEN KeyError(T(MissingColumns(self.historical_data, <<"risk_score_assigned", "claim_filed">>)[1]))
        ELSE
        ScoringStep("Demographics", "Occupation", <<occupation, occupation_class>>,
                    risk, weight, Round4(risk, weight),
                    comparison_data # EmptyDict, comparison_data)

_score_bmi(self, customer) ==
    IF ~Has(customer, "bmi") THEN KeyError(T("bmi")) ELSE
    LET bmi == customer.bmi
        weight == 15
        risk == IF bmi < 185 THEN 400
                ELSE IF bmi < 250 THEN 200
                ELSE IF bmi < 300 THEN 400
                ELSE IF bmi < 350 THEN 600
                ELSE IF bmi < 400 THEN 800
                ELSE 950
        category == IF bmi < 185 THEN "Underweight"
                    ELSE IF bmi < 250 THEN "Normal"
                    ELSE IF bmi < 300 THEN "Overweight"
                    ELSE IF bmi < 350 THEN "Obese Class I"
                    ELSE IF bmi < 400 THEN "Obese Class II"
                    ELSE "Obese Class III"
        bmi_cohort == SelectSeq(self.historical_data.rows,
                          LAMBDA r : r.bmi >= bmi - 20 /\ r.bmi <= bmi + 20)
        comparison_data ==
            IF self.historical_data.loaded /\ Len(bmi_cohort) > 0
            THEN [cohort_size |-> Len(bmi_cohort),
                  avg_risk_score |-> AvgRiskScore(bmi_cohort),
                  chronic_condition_rate |->
                      RoundHalfEven(
                          10000 * Len(SelectSeq(bmi_cohort,
                                      LAMBDA r : r.chronic_conditions # T("None"))),
                          Len(bmi_cohort))]
            ELSE EmptyDict
    IN  IF /\ self.historical_data.loaded /\ Len(bmi_cohort) > 0
           /\ MissingColumns(self.historical_data, <<"risk_score_assigned">>) # <<>>
        THEN KeyError(T(MissingColumns(self.historical_data, <<"risk_score_assigned">>)[1]))
        ELSE
        ScoringStep("Health Metrics", "Body Mass Index (BMI)", <<bmi, category>>,
                    risk, weight, Round4(risk, weight),
                    comparison_data # EmptyDict, comparison_data)

_score_blood_pressure(self, customer) ==
    IF ~Has(customer, "blood_pressure_systolic") THEN KeyError(T("blood_pressure_systolic"))
    ELSE IF ~Has(customer, "blood_pressure_diastolic") THEN KeyError(T("blood_pressure_diastolic"))
    ELSE
    LET systolic == customer.blood_pressure_systolic
        diastolic == customer.blood_pressure_diastolic
        weight == 10
        risk == IF systolic < 120 THEN 100
                ELSE IF systolic < 130 THEN 300
                ELSE IF systolic < 140 THEN 500
                ELSE IF systolic < 160 THEN 700
                ELSE 900
        category == IF systolic < 120 THEN "Normal"
                    ELSE IF systolic < 130 THEN "Elevated"
                    ELSE IF systolic < 140 THEN "High (Stage 1)"
                    ELSE IF systolic < 160 THEN "High (Stage 2)"
                    ELSE "Very High (Crisis)"
        bp_cohort == SelectSeq(self.historical_data.rows,
                         LAMBDA r : /\ r.blood_pressure_systolic >= systolic - 10
                                    /\ r.blood_pressure_systolic <= systolic + 10)
        comparison_data ==
            IF self.historical_data.loaded /\ Len(bp_cohort) > 0
            THEN [cohort_size |-> Len(bp_cohort),
                  avg_risk_score |-> AvgRiskScore(bp_cohort)]
            ELSE EmptyDict
    IN  IF /\ self.historical_data.loaded /\ Len(bp_cohort) > 0
           /\ MissingColumns(self.historical_data, <<"risk_score_assigned">>) # <<>>
        THEN KeyError(T(MissingColumns(self.historical_data, <<"risk_score_assigned">>)[1]))
        ELSE
        ScoringStep("Health Metrics", "Blood Pressure", <<systolic, diastolic, category>>,
                    risk, weight, Round4(risk, weight),
                    comparison_data # EmptyDict, comparison_data)

_score_cholesterol(self, customer) ==
    IF ~Has(customer, "total_cholesterol") THEN KeyError(T("total_cholesterol"))
    ELSE IF ~Has(customer, "hdl_cholesterol") THEN KeyError(T("hdl_cholesterol"))
    ELSE IF ~Has(customer, "ldl_cholesterol") THEN KeyError(T("ldl_cholesterol"))
    ELSE
    LET total_chol == customer.total_cholesterol
        weight == 8
        risk == IF total_chol < 200 THEN 200
                ELSE IF total_chol < 240 THEN 500
                ELSE 800
        category == IF total_chol < 200 THEN "Desirable"
                    ELSE IF total_chol < 240 THEN "Borderline High"
                    ELSE "High"
        chol_cohort == SelectSeq(self.historical_data.rows,
                           LAMBDA r : /\ r.total_cholesterol >= total_chol - 20
                                      /\ r.total_cholesterol <= total_chol + 20)
        comparison_data ==
            IF self.historical_data.loaded /\ Len(chol_cohort) > 0
            THEN [cohort_size |-> Len(chol_cohort),
                  avg_risk_score |-> AvgRiskScore(chol_cohort)]
            ELSE EmptyDict
    IN  IF /\ self.historical_data.loaded /\ Len(chol_cohort) > 0
           /\ MissingColumns(self.historical_data, <<"risk_score_assigned">>) # <<>>
        THEN KeyError(T(MissingColumns(self.historical_data, <<"risk_score_assigned">>)[1]))
        ELSE
        ScoringStep("Health Metrics", "Cholesterol", <<total_chol, category>>,
                    risk, weight, Round4(risk, weight),
                    comparison_data # EmptyDict, comparison_data)

smoking_risk_map ==
    [k \in {"Never", "Former (>5 years)", "Former (<5 years)", "Current"} |->
        CASE k = "Never" -> 100
          [] k = "Former (>5 years)" -> 300
          [] k = "Former (<5 years)" -> 500
          [] k = "Current" -> 950]

_score_smoking(self, customer) ==
    LET smoking_status == customer.smoking_status
        weight == 15
        risk_map == smoking_risk_map
    IN  IF ~InKeys(risk_map, smoking_status) THEN KeyError(smoking_status) ELSE
    LET risk == risk_map[smoking_status.segs[1]]
        smoking_cohort == SelectSeq(self.historical_data.rows,
                              LAMBDA r : r.smoking_status = smoking_status)
        comparison_data ==
            IF self.historical_data.loaded /\ Len(smoking_cohort) > 0
            THEN [cohort_size |-> Len(smoking_cohort),
                  avg_risk_score |-> AvgRiskScore(smoking_cohort),
                  avg_premium |-> AvgPremium(smoking_cohort)]
            ELSE EmptyDict
    IN  IF /\ self.historical_data.loaded /\ Len(smoking_cohort) > 0
           /\ MissingColumns(self.historical_data, <<"risk_score_assigned", "annual_premium_assigned">>) # <<>>
        THEN KeyError(T(MissingColumns(self.historical_data, <<"risk_score_assigned", "annual_premium_assigned">>)[1]))
        ELSE
        ScoringStep("Lifestyle", "Smoking Status", smoking_status, risk, weight,
                    Round4(risk, weight), comparison_data # EmptyDict, comparison_data)

\* variant of alcohol_risk_map: no "None" key, as in the other three maps
alcohol_risk_map_without_none ==
    [k \in {"Light (1-2/week)", "Moderate (3-7/week)", "Heavy (>7/week)"} |->
        CASE k = "Light (1-2/week)" -> 250
          [] k = "Moderate (3-7/week)" -> 400
          [] k = "Heavy (>7/week)" -> 800]

alcohol_risk_map ==
    [k \in {"None", "Light (1-2/week)", "Moderate (3-7/week)", "Heavy (>7/week)"} |->
        CASE k = "None" -> 200
          [] k = "Light (1-2/week)" -> 250
          [] k = "Moderate (3-7/week)" -> 400
          [] k = "Heavy (>7/week)" -> 800]

\* variant of _score_alcohol: the comparison is made over an empty cohort too
_score_alcohol_unguarded(self, customer) ==
    LET alcohol == customer.alcohol_consumption
        weight == 5
        risk_map == alcohol_risk_map
    IN  IF ~InKeys(risk_map, alcohol) THEN KeyError(alcohol) ELSE
    LET risk == risk_map[alcohol.segs[1]]
        alcohol_cohort == SelectSeq(self.historical_data.rows,
                              LAMBDA r : r.alcohol_consumption = alcohol)
        comparison_data ==
            IF self.historical_data.loaded
            THEN [cohort_size |-> Len(alcohol_cohort),
                  avg_risk_score |-> IF Len(alcohol_cohort) > 0
                                     THEN AvgRiskScore(alcohol_cohort) ELSE NaN]
            ELSE EmptyDict
    IN  IF /\ self.historical_data.loaded /\ Len(alcohol_cohort) > 0
           /\ MissingColumns(self.historical_data, <<"risk_score_assigned">>) # <<>>
        THEN KeyError(T(MissingColumns(self.historical_data, <<"risk_score_assigned">>)[1]))
        ELSE
        ScoringStep("Lifestyle", "Alcohol Consumption", alcohol, risk, weight,
                    Round4(risk, weight), comparison_data # EmptyDict, comparison_data)

_score_alcohol(self, customer) ==
    LET alcohol == customer.alcohol_consumption
        weight == 5
        risk_map == alcohol_risk_map
    IN  IF ~InKeys(risk_map, alcohol) THEN KeyError(alcohol) ELSE
    LET risk == risk_map[alcohol.segs[1]]
        alcohol_cohort == SelectSeq(self.historical_data.rows,
                              LAMBDA r : r.alcohol_consumption = alcohol)
        comparison_data ==
            IF self.historical_data.loaded /\ Len(alcohol_cohort) > 0
            THEN [cohort_size |-> Len(alcohol_cohort),
                  avg_risk_score |-> AvgRiskScore(alcohol_cohort)]
            ELSE EmptyDict
    IN  IF /\ self.historical_data.loaded /\ Len(alcohol_cohort) > 0
           /\ MissingColumns(self.historical_data, <<"risk_score_assigned">>) # <<>>
        THEN KeyError(T(MissingColumns(self.historical_data, <<"risk_score_assigned">>)[1]))
        ELSE
        ScoringStep("Lifestyle", "Alcohol Consumption", alcohol, risk, weight,
                    Round4(risk, weight), comparison_data # EmptyDict, comparison_data)

exercise_risk_map ==
    [k \in {"Sedentary", "Light (1-2/week)", "Moderate (3-4/week)", "Active (5+/week)"} |->
        CASE k = "Sedentary" -> 700
          [] k = "Light (1-2/week)" -> 500
          [] k = "Moderate (3-4/week)" -> 300
          [] k = "Active (5+/week)" -> 150]

\* variant of _score_exercise: risk_map.get(exercise, 0.5) instead of risk_map[exercise]
_score_exercise_default(self, customer) ==
    LET exercise == customer.exercise_frequency
        weight == 4
        risk_map == exercise_risk_map
        risk == IF InKeys(risk_map, exercise) THEN risk_map[exercise.segs[1]] ELSE 500
        exercise_cohort == SelectSeq(self.historical_data.rows,
                               LAMBDA r : r.exercise_frequency = exercise)
        comparison_data ==
            IF self.historical_data.loaded /\ Len(exercise_cohort) > 0
            THEN [cohort_size |-> Len(exercise_cohort),
                  avg_risk_score |-> AvgRiskScore(exercise_cohort),
                  avg_bmi |-> RoundHalfEven(SumOver(exercise_cohort, "bmi"),
                                            Len(exercise_cohort))]
            ELSE EmptyDict
    IN  IF /\ self.historical_data.loaded /\ Len(exercise_cohort) > 0
           /\ MissingColumns(self.historical_data, <<"risk_score_assigned">>) # <<>>
        THEN KeyError(T(MissingColumns(self.historical_data, <<"risk_score_assigned">>)[1]))
        ELSE
        ScoringStep("Lifestyle", "Exercise Frequency", exercise, risk, weight,
                    Round4(risk, weight), comparison_data # EmptyDict, comparison_data)

_score_exercise(self, customer) ==
    LET exercise == customer.exercise_frequency
        weight == 4
        risk_map == exercise_risk_map
    IN  IF ~InKeys(risk_map, exercise) THEN KeyError(exercise) ELSE
    LET risk == risk_map[exercise.segs[1]]
        exercise_cohort == SelectSeq(self.historical_data.rows,
                               LAMBDA r : r.exercise_frequency = exercise)
        comparison_data ==
            IF self.historical_data.loaded /\ Len(exercise_cohort) > 0
            THEN [cohort_size |-> Len(exercise_cohort),
                  avg_risk_score |-> AvgRiskScore(exercise_cohort),
                  avg_bmi |-> RoundHalfEven(SumOver(exercise_cohort, "bmi"),
                                            Len(exercise_cohort))]
            ELSE EmptyDict
    IN  IF /\ self.historical_data.loaded /\ Len(exercise_cohort) > 0
           /\ MissingColumns(self.historical_data, <<"risk_score_assigned">>) # <<>>
        THEN KeyError(T(MissingColumns(self.historical_data, <<"risk_score_assigned">>)[1]))
        ELSE
        ScoringStep("Lifestyle", "Exercise Frequency", exercise, risk, weight,
                    Round4(risk, weight), comparison_data # EmptyDict, comparison_data)

\* variant of _score_chronic_conditions: 0.4 + num_conditions * 0.2, without the cap
_score_chronic_conditions_uncapped(self, customer) ==
    LET conditions == customer.chronic_conditions
        weight == 10
        num_conditions == IF conditions = T("None") THEN 0 ELSE Len(Split(conditions))
        risk == IF conditions = T("None") THEN 100
                ELSE 400 + num_conditions * 200
        condition_cohort ==
            IF conditions = T("None")
            THEN SelectSeq(self.historical_data.rows,
                           LAMBDA r : r.chronic_conditions = T("None"))
            ELSE SelectSeq(self.historical_data.rows,
                           LAMBDA r : CountSep(r.chronic_conditions) = CountSep(conditions))
        comparison_data ==
            IF self.historical_data.loaded /\ Len(condition_cohort) > 0
            THEN [cohort_size |-> Len(condition_cohort),
                  avg_risk_score |-> AvgRiskScore(condition_cohort),
                  claim_rate |-> ClaimRate(condition_cohort)]
            ELSE EmptyDict
    IN  IF /\ self.historical_data.loaded /\ Len(condition_cohort) > 0
           /\ MissingColumns(self.historical_data, <<"risk_score_assigned", "claim_filed">>) # <<>>
        THEN KeyError(T(MissingColumns(self.historical_data, <<"risk_score_assigned", "claim_filed">>)[1]))
        ELSE
        ScoringStep("Medical History", "Chronic Conditions", conditions, risk, weight,
                    Round4(risk, weight), comparison_data # EmptyDict, comparison_data)

_score_chronic_conditions(self, customer) ==
    LET conditions == customer.chronic_conditions
        weight == 10
        num_conditions == IF conditions = T("None") THEN 0 ELSE Len(Split(conditions))
        risk == IF conditions = T("None") THEN 100
                ELSE Min(950, 400 + num_conditions * 200)
        condition_cohort ==
            IF conditions = T("None")
            THEN SelectSeq(self.historical_data.rows,
                           LAMBDA r : r.chronic_conditions = T("None"))
            ELSE SelectSeq(self.historical_data.rows,
                           LAMBDA r : CountSep(r.chronic_conditions) = CountSep(conditions))
        comparison_data ==
            IF self.historical_data.loaded /\ Len(condition_cohort) > 0
            THEN [cohort_size |-> Len(condition_cohort),
                  avg_risk_score |-> AvgRiskScore(condition_cohort),
                  claim_rate |-> ClaimRate(condition_cohort)]
            ELSE EmptyDict
    IN  IF /\ self.historical_data.loaded /\ Len(condition_cohort) > 0
           /\ MissingColumns(self.historical_data, <<"risk_score_assigned", "claim_filed">>) # <<>>
        THEN KeyError(T(MissingColumns(self.historical_data, <<"risk_score_assigned", "claim_filed">>)[1]))
        ELSE
        ScoringStep("Medical History", "Chronic Conditions", conditions, risk, weight,
                    Round4(risk, weight), comparison_data # EmptyDict, comparison_data)

\* variant of _score_family_history: the cap of the chronic conditions, 0.95
_score_family_history_cap_95(self, customer) ==
    LET family_history == customer.family_history
        weight == 5
        num_history == IF family_history = T("None") THEN 0 ELSE Len(Split(family_history))
        risk == IF family_history = T("None") THEN 200
                ELSE Min(950, 400 + num_history * 200)
        history_cohort ==
            IF family_history = T("None")
            THEN SelectSeq(self.historical_data.rows,
                           LAMBDA r : r.family_history = T("None"))
            ELSE SelectSeq(self.historical_data.rows,
                           LAMBDA r : CountSep(r.family_history) = CountSep(family_history))
        comparison_data ==
            IF self.historical_data.loaded /\ Len(history_cohort) > 0
            THEN [cohort_size |-> Len(history_cohort),
                  avg_risk_score |-> AvgRiskScore(history_cohort)]
            ELSE EmptyDict
    IN  IF /\ self.historical_data.loaded /\ Len(history_cohort) > 0
           /\ MissingColumns(self.historical_data, <<"risk_score_assigned">>) # <<>>
        THEN KeyError(T(MissingColumns(self.historical_data, <<"risk_score_assigned">>)[1]))
        ELSE
        ScoringStep("Medical History", "Family History", family_history, risk, weight,
                    Round4(risk, weight), comparison_data # EmptyDict, comparison_data)

_score_family_history(self, customer) ==
    LET family_history == customer.family_history
        weight == 5
        num_history == IF family_history = T("None") THEN 0 ELSE Len(Split(family_history))
        risk == IF family_history = T("None") THEN 200
                ELSE Min(800, 400 + num_history * 200)
        history_cohort ==
            IF family_history = T("None")
            THEN SelectSeq(self.historical_data.rows,
                           LAMBDA r : r.family_history = T("None"))
            ELSE SelectSeq(self.historical_data.rows,
                           LAMBDA r : CountSep(r.family_history) = CountSep(family_history))
        comparison_data ==
            IF self.historical_data.loaded /\ Len(history_cohort) > 0
            THEN [cohort_size |-> Len(history_cohort),
                  avg_risk_score |-> AvgRiskScore(history_cohort)]
            ELSE EmptyDict
    IN  IF /\ self.historical_data.loaded /\ Len(history_cohort) > 0
           /\ MissingColumns(self.historical_data, <<"risk_score_assigned">>) # <<>>
        THEN KeyError(T(MissingColumns(self.historical_data, <<"risk_score_assigned">>)[1]))
        ELSE
        ScoringStep("Medical History", "Family History", family_history, risk, weight,
                    Round4(risk, weight), comparison_data # EmptyDict, comparison_data)

\* variant of _score_hobbies: the cohort's average risk score replaces the table value
_score_hobbies_from_cohort(self, customer) ==
    LET hobby == customer.dangerous_hobbies
        weight == 3
        hobby_cohort ==
            IF hobby = T("None")
            THEN SelectSeq(self.historical_data.rows,
                           LAMBDA r : r.dangerous_hobbies = T("None"))
            ELSE SelectSeq(self.historical_data.rows,
                           LAMBDA r : r.dangerous_hobbies # T("None"))
        comparison_data ==
            IF self.historical_data.loaded /\ Len(hobby_cohort) > 0
            THEN [cohort_size |-> Len(hobby_cohort),
                  avg_risk_score |-> AvgRiskScore(hobby_cohort)]
            ELSE EmptyDict
        risk == IF comparison_data # EmptyDict THEN 10 * comparison_data.avg_risk_score
                ELSE IF hobby = T("None") THEN 100 ELSE 900
    IN  IF /\ self.historical_data.loaded /\ Len(hobby_cohort) > 0
           /\ MissingColumns(self.historical_data, <<"risk_score_assigned">>) # <<>>
        THEN KeyError(T(MissingColumns(self.historical_data, <<"risk_score_assigned">>)[1]))
        ELSE
        ScoringStep("Lifestyle", "Dangerous Hobbies", hobby, risk, weight,
                    Round4(risk, weight), comparison_data # EmptyDict, comparison_data)

_score_hobbies(self, customer) ==
    LET hobby == customer.dangerous_hobbies
        weight == 3
        risk == IF hobby = T("None") THEN 100 ELSE 900
        hobby_cohort ==
            IF hobby = T("None")
            THEN SelectSeq(self.historical_data.rows,
                           LAMBDA r : r.dangerous_hobbies = T("None"))
            ELSE SelectSeq(self.historical_data.rows,
                           LAMBDA r : r.dangerous_hobbies # T("None"))
        comparison_data ==
            IF self.historical_data.loaded /\ Len(hobby_cohort) > 0
            THEN [cohort_size |-> Len(hobby_cohort),
                  avg_risk_score |-> AvgRiskScore(hobby_cohort)]
            ELSE EmptyDict
    IN  IF /\ self.historical_data.loaded /\ Len(hobby_cohort) > 0
           /\ MissingColumns(self.historical_data, <<"risk_score_assigned">>) # <<>>
        THEN KeyError(T(MissingColumns(self.historical_data, <<"risk_score_assigned">>)[1]))
        ELSE
        ScoringStep("Lifestyle", "Dangerous Hobbies", hobby, risk, weight,
                    Round4(risk, weight), comparison_data # EmptyDict, comparison_data)

(***************************************************************************)
(* Exact fractions, for the prices (in cents) and the policy metrics       *)
(***************************************************************************)
LCM(a, b) == (a \div GCD(a, b)) * b

FAdd(p, q) ==
    LET l == LCM(p.d, q.d)
    IN  Frac(p.n * (l \div p.d) + q.n * (l \div q.d), l)

FSub(p, q) == FAdd(p, [n |-> -q.n, d |-> q.d])

FMul(p, q) == Times(p, q.n, q.d)

FLess(p, q) == LET l == LCM(p.d, q.d) IN p.n * (l \div p.d) < q.n * (l \div q.d)

FLeq(p, q) == ~FLess(q, p)

FMin(p, q) == IF FLess(q, p) THEN q ELSE p
FMax(p, q) == IF FLess(p, q) THEN q ELSE p

(***************************************************************************)
(* Pricing.  risk_score is in ten-thousandths; the prices are in cents.    *)
(***************************************************************************)
\* variant of base_rate: the tier boundaries belong to the lower tier
base_rate_leq(age) ==
    IF age <= 300 THEN 60
    ELSE IF age <= 400 THEN 80
    ELSE IF age <= 500 THEN 150
    ELSE IF age <= 600 THEN 300
    ELSE 600

\* base annual premium per $1000 of coverage, by age, in cents
base_rate(age) ==
    IF age < 300 THEN 60
    ELSE IF age < 400 THEN 80
    ELSE IF age < 500 THEN 150
    ELSE IF age < 600 THEN 300
    ELSE 600

\* variant of price_boundaries: the two factors exchanged
price_boundaries_swapped(base_annual_premium) ==
    [low |-> Times(base_annual_premium, 125, 100),
     high |-> Times(base_annual_premium, 85, 100)]

\* low_boundary and high_boundary
price_boundaries(base_annual_premium) ==
    [low |-> Times(base_annual_premium, 85, 100),
     high |-> Times(base_annual_premium, 125, 100)]

\* the recommended price, by risk tier
\* variant of recommended_price: no third tier
recommended_price_two_tiers(low_boundary, high_boundary, risk_score) ==
    IF risk_score < 3000
    THEN FAdd(low_boundary, Times(FSub(high_boundary, low_boundary), 40, 100))
    ELSE FAdd(low_boundary, Times(FSub(high_boundary, low_boundary), 60, 100))

recommended_price(low_boundary, high_boundary, risk_score) ==
    IF risk_score < 3000
    THEN FAdd(low_boundary, Times(FSub(high_boundary, low_boundary), 4, 10))
    ELSE IF risk_score < 6000
    THEN FAdd(low_boundary, Times(FSub(high_boundary, low_boundary), 6, 10))
    ELSE FAdd(low_boundary, Times(FSub(high_boundary, low_boundary), 75, 100))

_calculate_pricing(self, customer, risk_score) ==
    IF ~Has(customer, "coverage_amount_requested")
    THEN KeyError(T("coverage_amount_requested")) ELSE
    LET age == customer.age
        risk_multiplier == Frac(5000 + risk_score * 3, 10000)
        coverage_thousands == Frac(customer.coverage_amount_requested, 1000)
        base_annual_premium ==
            FMul(Times(coverage_thousands, base_rate(age), 1), risk_multiplier)
        boundaries == price_boundaries(base_annual_premium)
        low_boundary == boundaries.low
        high_boundary == boundaries.high
        recommended == recommended_price(low_boundary, high_boundary, risk_score)
    IN  [status |-> "ok", low |-> low_boundary, calculated |-> recommended,
         recommended |-> recommended, high |-> high_boundary]

(***************************************************************************)
(* Policy duration and attrition.  timestamp_today is pd.Timestamp.today() *)
(* as a day number: the function reads the clock.  The results are exact   *)
(* fractions (years; a probability).                                       *)
(***************************************************************************)
RECURSIVE SumTenureDays(_, _)
SumTenureDays(rows, timestamp_today) ==
    IF rows = <<>> THEN 0
    ELSE (timestamp_today - rows[1].policy_issue_date.day)
         + SumTenureDays(Tail(rows), timestamp_today)

\* mean of (today - issue_date).days / 365.25 over the rows
MeanTenureYears(rows, timestamp_today) ==
    Frac(4 * SumTenureDays(rows, timestamp_today), 1461 * Len(rows))

\* variant of fallback: the bounds of predicted_duration_years are 1 and 30
fallback_wide(risk_score) ==
    [status |-> "ok",
     predicted_duration_years |->
         FMax(Frac(1, 1), FMin(Frac(30, 1), Frac(120000 - risk_score * 6, 10000))),
     attrition_likelihood |->
         FMax(Frac(5, 100), FMin(Frac(60, 100), Frac(120000 + risk_score * 25, 1000000)))]

\* the closed form, from the risk score alone
fallback(risk_score) ==
    [status |-> "ok",
     predicted_duration_years |->
         FMax(Frac(3, 1), FMin(Frac(20, 1), Frac(120000 - risk_score * 6, 10000))),
     attrition_likelihood |->
         FMax(Frac(5, 100), FMin(Frac(60, 100), Frac(120000 + risk_score * 25, 1000000)))]

\* variant of metrics_cohort: the primary cohort, whatever its size
metrics_cohort_primary(df, customer) ==
    LET age == customer.age
    IN  SelectSeq(
            SelectSeq(
                SelectSeq(df, LAMBDA r : r.age >= age - 50 /\ r.age <= age + 50),
                LAMBDA r : r.occupation_class = customer.occupation_class),
            LAMBDA r : r.smoking_status = customer.smoking_status)

\* the variable cohort of _estimate_policy_metrics after the two relaxations
metrics_cohort(df, customer) ==
    LET age == customer.age
        primary ==
            SelectSeq(
                SelectSeq(
                    SelectSeq(df, LAMBDA r : r.age >= age - 50 /\ r.age <= age + 50),
                    LAMBDA r : r.occupation_class = customer.occupation_class),
                LAMBDA r : r.smoking_status = customer.smoking_status)
        relaxed ==
            IF Len(primary) < 50
            THEN SelectSeq(
                     SelectSeq(df, LAMBDA r : r.age >= age - 100 /\ r.age <= age + 100),
                     LAMBDA r : r.smoking_status = customer.smoking_status)
            ELSE primary
    IN  IF Len(relaxed) < 30
        THEN SelectSeq(df, LAMBDA r : r.age >= age - 100 /\ r.age <= age + 100)
        ELSE relaxed

\* variant of attrition_likelihood: the active rate itself
attrition_likelihood_active_rate(accepted) ==
    Frac(Count(accepted, "policy_active"), Len(accepted))

\* 1.0 - accepted['policy_active'].mean()
attrition_likelihood(accepted) ==
    Frac(Len(accepted) - Count(accepted, "policy_active"), Len(accepted))

_estimate_policy_metrics(self, customer, risk_score, timestamp_today) ==
    LET df == self.historical_data.rows
        cohort == metrics_cohort(df, customer)
        accepted == SelectSeq(cohort, LAMBDA r : r.policy_accepted)
        \* tenure_years.dropna(): the rows whose issue date parses
        tenure_rows == SelectSeq(accepted, LAMBDA r : r.policy_issue_date.valid)
        active_tenure ==
            IF Len(tenure_rows) = Len(accepted)
            THEN SelectSeq(tenure_rows, LAMBDA r : r.policy_active)
            ELSE tenure_rows
        avg_tenure ==
            IF active_tenure # <<>>
            THEN MeanTenureYears(active_tenure, timestamp_today)
            ELSE MeanTenureYears(tenure_rows, timestamp_today)
    IN  IF ~self.historical_data.loaded \/ df = <<>> THEN fallback(risk_score)
        ELSE IF ~Has(customer, "age") THEN KeyError(T("age"))
        ELSE IF MissingColumns(self.historical_data, <<"policy_accepted">>) # <<>>
             THEN KeyError(T("policy_accepted"))
        ELSE IF accepted = <<>> THEN fallback(risk_score)
        ELSE IF MissingColumns(self.historical_data,
                               <<"policy_active", "policy_issue_date">>) # <<>>
             THEN KeyError(T(MissingColumns(self.historical_data,
                                            <<"policy_active", "policy_issue_date">>)[1]))
        ELSE IF tenure_rows = <<>> THEN fallback(risk_score)
        ELSE [status |-> "ok",
              predicted_duration_years |->
                  FMax(Frac(1, 1), FMin(Frac(30, 1), avg_tenure)),
              attrition_likelihood |->
                  FMax(Frac(0, 1), FMin(Frac(1, 1), attrition_likelihood(accepted)))]

(***************************************************************************)
(* Summary: the parts of the text that are computed                        *)
(***************************************************************************)
\* position of steps[i] in sorted(steps, key=weighted_score, reverse=descending)
\* (Python's sort is stable, also with reverse=True)
SortedPosition(steps, i, descending) ==
    1 + Cardinality({j \in DOMAIN steps :
            \/ (descending /\ steps[j].weighted_score > steps[i].weighted_score)
            \/ (~descending /\ steps[j].weighted_score < steps[i].weighted_score)
            \/ (steps[j].weighted_score = steps[i].weighted_score /\ j < i)})

Sorted(steps, descending) ==
    [k \in DOMAIN steps |->
        steps[CHOOSE i \in DOMAIN steps : SortedPosition(steps, i, descending) = k]]

_generate_summary(self, customer, risk_score, steps, pricing) ==
    IF ~Has(customer, "customer_id") THEN KeyError(T("customer_id")) ELSE
    LET top_risks == SubSeq(Sorted(steps, TRUE), 1, 3)
        top_protective == SubSeq(Sorted(steps, FALSE), 1, 2)
        risk_tier ==
            IF risk_score < 2500 THEN "Very Low Risk - Preferred Pricing"
            ELSE IF risk_score < 3500 THEN "Low Risk - Standard Plus"
            ELSE IF risk_score < 5000 THEN "Average Risk - Standard"
            ELSE IF risk_score < 6500 THEN "Elevated Risk - Standard Rated"
            ELSE "High Risk - Table Rated"
        note == IF risk_score > 6000 THEN "HIGH RISK"
                ELSE IF risk_score < 3000 THEN "PREFERRED RISK"
                ELSE ""
    IN  [status |-> "ok",
         customer_id |-> customer.customer_id,
         risk_tier |-> risk_tier,
         recommended |-> RoundFrac(pricing.recommended),
         low |-> RoundFrac(pricing.low),
         high |-> RoundFrac(pricing.high),
         top_risks |-> [k \in 1..3 |-> top_risks[k].factor],
         top_protective |-> [k \in 1..2 |-> top_protective[k].factor],
         note |-> note]

(***************************************************************************)
(* Confidence                                                              *)
(***************************************************************************)
RECURSIVE SumWeighted(_)
SumWeighted(steps) ==
    IF steps = <<>> THEN 0 ELSE steps[1].weighted_score + SumWeighted(Tail(steps))

\* variant of _calculate_confidence: the limits 25, 70 and 0.7 reduce the confidence too
_calculate_confidence_inclusive(self, customer, steps) ==
    LET age == customer.age
        c0 == Frac(1, 1)
        c1 == IF age <= 250 \/ age >= 700 THEN Times(c0, 9, 10) ELSE c0
        total_risk == SumWeighted(steps)
        c2 == IF total_risk >= 7000 THEN Times(c1, 85, 100) ELSE c1
        c3 == IF customer.dangerous_hobbies # T("None") THEN Times(c2, 9, 10) ELSE c2
        c4 == IF /\ customer.chronic_conditions # T("None")
                 /\ Len(Split(customer.chronic_conditions)) >= 2
              THEN Times(c3, 92, 100) ELSE c3
        confidence_score == c4
    IN  IF FLeq(Frac(95, 100), confidence_score) THEN "Very High"
        ELSE IF FLeq(Frac(85, 100), confidence_score) THEN "High"
        ELSE IF FLeq(Frac(75, 100), confidence_score) THEN "Moderate"
        ELSE "Low"

\* variant of _calculate_confidence: an extreme risk score multiplies by 0.80
_calculate_confidence_risk_80(self, customer, steps) ==
    LET age == customer.age
        c0 == Frac(1, 1)
        c1 == IF age < 250 \/ age > 700 THEN Times(c0, 9, 10) ELSE c0
        total_risk == SumWeighted(steps)
        c2 == IF total_risk > 7000 THEN Times(c1, 80, 100) ELSE c1
        c3 == IF customer.dangerous_hobbies # T("None") THEN Times(c2, 9, 10) ELSE c2
        c4 == IF /\ customer.chronic_conditions # T("None")
                 /\ Len(Split(customer.chronic_conditions)) >= 2
              THEN Times(c3, 92, 100) ELSE c3
        confidence_score == c4
    IN  IF FLeq(Frac(95, 100), confidence_score) THEN "Very High"
        ELSE IF FLeq(Frac(85, 100), confidence_score) THEN "High"
        ELSE IF FLeq(Frac(75, 100), confidence_score) THEN "Moderate"
        ELSE "Low"

_calculate_confidence(self, customer, steps) ==
    LET age == customer.age
        c0 == Frac(1, 1)
        c1 == IF age < 250 \/ age > 700 THEN Times(c0, 9, 10) ELSE c0
        total_risk == SumWeighted(steps)
        c2 == IF total_risk > 7000 THEN Times(c1, 85, 100) ELSE c1
        c3 == IF customer.dangerous_hobbies # T("None") THEN Times(c2, 9, 10) ELSE c2
        c4 == IF /\ customer.chronic_conditions # T("None")
                 /\ Len(Split(customer.chronic_conditions)) >= 2
              THEN Times(c3, 92, 100) ELSE c3
        confidence_score == c4
    IN  IF FLeq(Frac(95, 100), confidence_score) THEN "Very High"
        ELSE IF FLeq(Frac(85, 100), confidence_score) THEN "High"
        ELSE IF FLeq(Frac(75, 100), confidence_score) THEN "Moderate"
        ELSE "Low"

(***************************************************************************)
(* score_customer.  The call raises the first exception met, in the order  *)
(* of the statements; timestamp_today is the clock read by                 *)
(* _estimate_policy_metrics.                                               *)
(***************************************************************************)
\* variant of total_risk_score: the last step is not added
total_risk_score_without_last(scoring_steps) ==
    SumWeighted(SubSeq(scoring_steps, 1, Len(scoring_steps) - 1))

\* total_risk_score after the twelve statements total_risk_score += step.weighted_score
total_risk_score(scoring_steps) == SumWeighted(scoring_steps)

FirstError(outcomes) ==
    outcomes[CHOOSE i \in DOMAIN outcomes :
        /\ IsError(outcomes[i])
        /\ \A j \in 1..(i - 1) : ~IsError(outcomes[j])]

AnyError(outcomes) == \E i \in DOMAIN outcomes : IsError(outcomes[i])

score_customer(self, customer_in, timestamp_today) ==
    LET customer == normalize_customer_inputs(customer_in)
        scoring_steps ==
            <<_score_age(self, customer),
              _score_gender(self, customer),
              _score_occupation(self, customer),
              _score_bmi(self, customer),
              _score_blood_pressure(self, customer),
              _score_cholesterol(self, customer),
              _score_smoking(self, customer),
              _score_alcohol(self, customer),
              _score_exercise(self, customer),
              _score_chronic_conditions(self, customer),
              _score_family_history(self, customer),
              _score_hobbies(self, customer)>>
    IN  IF AnyError(scoring_steps) THEN FirstError(scoring_steps) ELSE
    LET risk_total == total_risk_score(scoring_steps)
        pricing == _calculate_pricing(self, customer, risk_total)
    IN  IF IsError(pricing) THEN pricing ELSE
    LET summary == _generate_summary(self, customer, risk_total, scoring_steps, pricing)
    IN  IF IsError(summary) THEN summary ELSE
    LET confidence == _calculate_confidence(self, customer, scoring_steps)
        policy_metrics ==
            _estimate_policy_metrics(self, customer, risk_total, timestamp_today)
    IN  IF IsError(policy_metrics) THEN policy_metrics ELSE
        [status |-> "ok",
         customer_id |-> customer.customer_id,
         final_risk_score |-> RoundHalfEven(risk_total, 1),
         annual_premium_low |-> RoundFrac(pricing.low),
         annual_premium_calculated |-> RoundFrac(pricing.calculated),
         annual_premium_recommended |-> RoundFrac(pricing.recommended),
         annual_premium_high |-> RoundFrac(pricing.high),
         predicted_policy_duration_years |->
             RoundFrac(Times(policy_metrics.predicted_duration_years, 10, 1)),
         attrition_likelihood |->
             RoundFrac(Times(policy_metrics.attrition_likelihood, 1000, 1)),
         scoring_steps |-> scoring_steps,
         summary |-> summary,
         confidence_level |-> confidence]

(***************************************************************************)
(* Inputs: historical datasets                                             *)
(***************************************************************************)
Date(day)   == [valid |-> TRUE, day |-> day]
InvalidDate == [valid |-> FALSE, day |-> 0]

\* the day the engine is constructed
StartDay == 20000

Row(age, gender, occupation_class, bmi, systolic, total_chol, smoking, alcohol, exercise, chronic, family, hobby, risk, premium, accepted, active, claim, issued) ==
    [age |-> age, gender |-> T(gender), occupation_class |-> T(occupation_class),
     bmi |-> bmi, blood_pressure_systolic |-> systolic, total_cholesterol |-> total_chol,
     smoking_status |-> T(smoking), alcohol_consumption |-> T(alcohol),
     exercise_frequency |-> T(exercise), chronic_conditions |-> chronic,
     family_history |-> family, dangerous_hobbies |-> T(hobby),
     risk_score_assigned |-> risk, annual_premium_assigned |-> premium,
     policy_accepted |-> accepted, policy_active |-> active, claim_filed |-> claim,
     policy_issue_date |-> issued]

OneCondition    == Str(<<"Hypertension">>, FALSE)
TwoConditions   == Str(<<"Hypertension", " Diabetes Type 2">>, FALSE)
ThreeConditions == Str(<<"Hypertension", " Diabetes Type 2", " Asthma">>, FALSE)
FourConditions  == Str(<<"Hypertension", " Diabetes Type 2", " Asthma", " Arthritis">>, FALSE)
OneHistory      == Str(<<"Heart Disease">>, FALSE)
TwoHistories    == Str(<<"Heart Disease", " Cancer">>, FALSE)
ThreeHistories  == Str(<<"Heart Disease", " Cancer", " Stroke">>, FALSE)

HistoryA ==
    DataFrame(<<
        Row(243, "Female", "Class I (Low Risk)", 221, 114, 178, "Never", "None",
            "Active (5+/week)", T("None"), T("None"), "None",
            1806, 21500, TRUE, TRUE, FALSE, Date(StartDay - 400)),
        Row(268, "Male", "Class I (Low Risk)", 236, 121, 190, "Never", "Light (1-2/week)",
            "Moderate (3-4/week)", T("None"), OneHistory, "None",
            2314, 26050, TRUE, FALSE, FALSE, Date(StartDay - 1100)),
        Row(452, "Male", "Class II (Moderate Risk)", 271, 128, 212, "Former (>5 years)",
            "Light (1-2/week)", "Light (1-2/week)", OneCondition, T("None"), "None",
            3977, 98020, TRUE, TRUE, FALSE, Date(StartDay - 730)),
        Row(470, "Female", "Class II (Moderate Risk)", 301, 138, 236, "Never",
            "Moderate (3-7/week)", "Sedentary", T("None"), T("None"), "None",
            3521, 87000, FALSE, FALSE, FALSE, Date(StartDay - 500)),
        Row(641, "Male", "Class IV (Very High Risk)", 366, 164, 258, "Current",
            "Heavy (>7/week)", "Sedentary", TwoConditions, TwoHistories, "Skydiving",
            8312, 912345, TRUE, TRUE, TRUE, Date(StartDay - 1500)),
        Row(688, "Female", "Class III (High Risk)", 352, 158, 244, "Current",
            "None", "Light (1-2/week)", OneCondition, OneHistory, "None",
            6650, 640010, TRUE, FALSE, FALSE, InvalidDate)>>)

\* other outcomes, other people
HistoryB ==
    DataFrame(<<
        Row(255, "Male", "Class III (High Risk)", 215, 117, 185, "Never", "None",
            "Active (5+/week)", OneCondition, T("None"), "Skiing",
            5120, 51000, TRUE, TRUE, TRUE, Date(StartDay - 1700)),
        Row(449, "Female", "Class I (Low Risk)", 280, 131, 201, "Former (<5 years)",
            "Light (1-2/week)", "Moderate (3-4/week)", T("None"), TwoHistories, "None",
            2950, 70000, FALSE, FALSE, FALSE, Date(StartDay - 365)),
        Row(655, "Male", "Class IV (Very High Risk)", 374, 168, 262, "Current",
            "Moderate (3-7/week)", "Sedentary", TwoConditions, T("None"), "Scuba Diving",
            7790, 1000000, TRUE, FALSE, FALSE, Date(StartDay - 900))>>)

Datasets == {NoData, DataFrame(<<>>), HistoryA, HistoryB}

(***************************************************************************)
(* Inputs: applicant records                                               *)
(***************************************************************************)
Healthy ==
    [customer_id |-> "CUST-H", age |-> 250, gender |-> T("Female"),
     occupation |-> T("Teacher"), occupation_class |-> T("Class I (Low Risk)"),
     bmi |-> 220, blood_pressure_systolic |-> 115, blood_pressure_diastolic |-> 75,
     total_cholesterol |-> 180, hdl_cholesterol |-> 60, ldl_cholesterol |-> 100,
     smoking_status |-> T("Never"), alcohol_consumption |-> T("None"),
     exercise_frequency |-> T("Active (5+/week)"), chronic_conditions |-> T("None"),
     family_history |-> T("None"), dangerous_hobbies |-> T("None"),
     annual_income |-> 60000, coverage_amount_requested |-> 250000]

Average ==
    [customer_id |-> "CUST-A", age |-> 450, gender |-> T("Male"),
     occupation |-> T("Electrician"), occupation_class |-> T("Class II (Moderate Risk)"),
     bmi |-> 270, blood_pressure_systolic |-> 128, blood_pressure_diastolic |-> 82,
     total_cholesterol |-> 210, hdl_cholesterol |-> 50, ldl_cholesterol |-> 140,
     smoking_status |-> T("Former (>5 years)"), alcohol_consumption |-> T("Light (1-2/week)"),
     exercise_frequency |-> T("Light (1-2/week)"), chronic_conditions |-> OneCondition,
     family_history |-> OneHistory, dangerous_hobbies |-> T("None"),
     annual_income |-> 75000, coverage_amount_requested |-> 500000]

Unhealthy ==
    [customer_id |-> "CUST-U", age |-> 650, gender |-> T("Male"),
     occupation |-> T("Roofer"), occupation_class |-> T("Class IV (Very High Risk)"),
     bmi |-> 370, blood_pressure_systolic |-> 165, blood_pressure_diastolic |-> 100,
     total_cholesterol |-> 260, hdl_cholesterol |-> 35, ldl_cholesterol |-> 205,
     smoking_status |-> T("Current"), alcohol_consumption |-> T("Heavy (>7/week)"),
     exercise_frequency |-> T("Sedentary"), chronic_conditions |-> TwoConditions,
     family_history |-> TwoHistories, dangerous_hobbies |-> T("Skydiving"),
     annual_income |-> 55000, coverage_amount_requested |-> 1000000]

BaseProfiles == {Healthy, Average, Unhealthy}

AllFields == DOMAIN Healthy

\* the values a field is varied over; text fields take raw, not yet normalized, values
FieldValues(f) ==
    CASE f = "age" -> {180, 249, 250, 299, 300, 399, 400, 499, 500, 599, 600, 699, 700, 701}
      [] f = "bmi" -> {170, 184, 185, 249, 250, 299, 300, 349, 350, 399, 400}
      [] f = "blood_pressure_systolic" -> {119, 120, 129, 130, 139, 140, 159, 160}
      [] f = "total_cholesterol" -> {199, 200, 239, 240}
      [] f = "coverage_amount_requested" -> {-100000, 0, 10, 40, 41, 1000, 100000, 5000000}
      [] f = "gender" -> {T("Male"), T("Female"), T("Other"), PyNone, Padded("Male")}
      [] f = "occupation_class" ->
            {T(k) : k \in DOMAIN occupation_risk_map} \cup {T("Class V"), T(""), NaN}
      [] f = "smoking_status" ->
            {T(k) : k \in DOMAIN smoking_risk_map} \cup {T("Occasional"), T("nan")}
      [] f = "alcohol_consumption" ->
            {T(k) : k \in DOMAIN alcohol_risk_map} \cup {T("Binge"), PyNone}
      [] f = "exercise_frequency" ->
            {T(k) : k \in DOMAIN exercise_risk_map} \cup {T("Daily"), Padded("")}
      [] f = "chronic_conditions" ->
            {T("None"), OneCondition, TwoConditions, ThreeConditions, FourConditions, T("NaN")}
      [] f = "family_history" -> {T("None"), OneHistory, TwoHistories, ThreeHistories}
      [] f = "dangerous_hobbies" -> {T("None"), T("Skydiving"), PyNone}
      [] OTHER -> {}

With(c, f, v) == [c EXCEPT ![f] = v]

\* the record c with c[f] = v, whether or not it had the key f
Put(c, f, v) == [g \in (DOMAIN c) \cup {f} |-> IF g = f THEN v ELSE c[g]]

\* the record without the key f
Without(c, f) == [g \in (DOMAIN c) \ {f} |-> c[g]]

\* the records that differ from c in one field: another value, or the key missing
Variants(c) ==
    UNION {{With(c, f, v) : v \in FieldValues(f)} \cup {Without(c, f)} : f \in DOMAIN c}

\* a second variation, over the number of chronic conditions
CrossFields == {"chronic_conditions"}

CrossVariants(c) ==
    UNION {{With(c, f, v) : v \in FieldValues(f)} : f \in CrossFields \cap DOMAIN c}

Applicants ==
    UNION {{c} \cup CrossVariants(c) : c \in UNION {{b} \cup Variants(b) : b \in BaseProfiles}}

(***************************************************************************)
(* The state machine: an engine is constructed over a dataset, an          *)
(* applicant record is scored, time passes, and the record is scored       *)
(* again.                                                                  *)
(***************************************************************************)
\* how many times the clock advances (by a quarter of a year)
MaxTicks == 1

NoCall == [status |-> "none"]

\* pattern_analyzer = None: the AI analysis is not enabled
NoAnalyzer == [enabled |-> FALSE]

\* an empty cache directory
NoFiles == <<>>

Init ==
    /\ engine \in {[historical_data |-> d] : d \in Datasets}
    /\ today = StartDay
    /\ customer_dict = EmptyDict
    /\ result = NoCall
    /\ previous = NoCall
    /\ pattern_analyzer = NoAnalyzer
    /\ cache_dir = NoFiles
    /\ now = 0

\* result = engine.score_customer(customer_dict), for a first record
Score ==
    /\ result = NoCall
    /\ \E c \in Applicants :
        /\ customer_dict' = c
        /\ result' = score_customer(engine, c, today)
    /\ UNCHANGED <<engine, today, previous, pattern_analyzer, cache_dir, now>>

\* the same record is scored again
Rescore ==
    /\ result # NoCall
    /\ previous = NoCall
    /\ previous' = result
    /\ result' = score_customer(engine, customer_dict, today)
    /\ customer_dict' = caller_record(customer_dict)
    /\ UNCHANGED <<engine, today, pattern_analyzer, cache_dir, now>>

\* time passes
Tick ==
    /\ result # NoCall
    /\ previous = NoCall
    /\ today < StartDay + 91 * MaxTicks
    /\ today' = today + 91
    /\ UNCHANGED <<engine, customer_dict, result, previous, pattern_analyzer, cache_dir, now>>

Next == Score \/ Rescore \/ Tick

Spec == Init /\ [][Next]_vars

(***************************************************************************)
(* The same calls over a historical file that lacks an outcome column      *)
(***************************************************************************)
\* the DataFrame read from a file without the column col
WithoutColumn(historical_data, col) ==
    DataFrame([i \in DOMAIN historical_data.rows |-> Without(historical_data.rows[i], col)])

DatasetsLackingColumn ==
    {WithoutColumn(HistoryA, "annual_premium_assigned"), WithoutColumn(HistoryB, "claim_filed")}

InitColumns ==
    /\ engine \in {[historical_data |-> d] : d \in DatasetsLackingColumn}
    /\ today = StartDay
    /\ customer_dict = EmptyDict
    /\ result = NoCall
    /\ previous = NoCall
    /\ pattern_analyzer = NoAnalyzer
    /\ cache_dir = NoFiles
    /\ now = 0

SpecColumns == InitColumns /\ [][Next]_vars

(***************************************************************************)
(* _calculate_pricing on its own: every age tier, risk tier and coverage   *)
(***************************************************************************)
PricingAges == {180, 299, 300, 301, 399, 400, 499, 500, 599, 600, 601, 750}

PricingRiskScores == {0, 1725, 2995, 3000, 3005, 4500, 5995, 6000, 6005, 8690, 9465, 10000}

PricingCoverages == {-100000, 0, 41, 1000, 250000, 5000000}

InitPricing ==
    /\ engine = [historical_data |-> NoData]
    /\ today = StartDay
    /\ customer_dict \in {[age |-> a, coverage_amount_requested |-> c] :
                              a \in PricingAges, c \in PricingCoverages}
    /\ result = NoCall
    /\ previous = NoCall
    /\ pattern_analyzer = NoAnalyzer
    /\ cache_dir = NoFiles
    /\ now = 0

\* result = the arguments and the value of engine._calculate_pricing(customer, risk_score)
CalculatePricing ==
    /\ result = NoCall
    /\ \E risk_score \in PricingRiskScores :
        result' = [status |-> "priced", risk_score |-> risk_score,
                   pricing |-> _calculate_pricing(engine, customer_dict, risk_score)]
    /\ UNCHANGED <<engine, today, customer_dict, previous, pattern_analyzer, cache_dir, now>>

NextPricing == CalculatePricing

SpecPricing == InitPricing /\ [][NextPricing]_vars

(***************************************************************************)
(* _estimate_policy_metrics on its own, over datasets large enough for the *)
(* thresholds of 50 and 30 rows.  The applicant is 45, Class II, a         *)
(* never-smoker; the rows are of seven kinds.                              *)
(***************************************************************************)
MetricsCustomer ==
    [age |-> 450, occupation_class |-> T("Class II (Moderate Risk)"),
     smoking_status |-> T("Never")]

MetricsRow(age, occupation_class, smoking, accepted, active, issued) ==
    Row(age, "Male", occupation_class, 250, 120, 200, smoking, "None", "Sedentary",
        T("None"), T("None"), "None", 3000, 50000, accepted, active, FALSE, issued)

\* in the primary cohort, at its upper and lower age limits
PrimaryActive ==
    MetricsRow(500, "Class II (Moderate Risk)", "Never", TRUE, TRUE, Date(StartDay - 100))
PrimaryLapsed ==
    MetricsRow(400, "Class II (Moderate Risk)", "Never", TRUE, FALSE, Date(StartDay - 2000))
\* in the relaxed cohort only: the wider age window, or another occupation class
RelaxedActive ==
    MetricsRow(550, "Class II (Moderate Risk)", "Never", TRUE, TRUE, Date(StartDay - 3000))
RelaxedUndated ==
    MetricsRow(450, "Class III (High Risk)", "Never", TRUE, FALSE, InvalidDate)
\* in the age window only: another smoking status
AgeOnlyActive ==
    MetricsRow(350, "Class II (Moderate Risk)", "Current", TRUE, TRUE, Date(StartDay - 12000))
AgeOnlyDeclined ==
    MetricsRow(450, "Class II (Moderate Risk)", "Current", FALSE, FALSE, Date(StartDay - 700))
\* outside every cohort
Outside ==
    MetricsRow(551, "Class II (Moderate Risk)", "Never", TRUE, TRUE, Date(StartDay - 5000))

Repeat(row, n) == [i \in 1..n |-> row]

MetricsDatasets ==
    {NoData, DataFrame(<<>>)} \cup
    {DataFrame(Repeat(PrimaryActive, pa) \o Repeat(PrimaryLapsed, pl)
               \o Repeat(RelaxedActive, ra) \o Repeat(RelaxedUndated, ru)
               \o Repeat(AgeOnlyActive, aa) \o Repeat(AgeOnlyDeclined, ad)
               \o <<Outside>>) :
        pa \in {0, 20, 49, 50}, pl \in {0, 1}, ra \in {0, 9, 10, 30}, ru \in {0, 1},
        aa \in {0, 2}, ad \in {0, 1}}

\* risk scores, also beyond the range of scores, where the closed form is clamped
MetricsRiskScores == {-14000, 0, 8690, 16000, 20000}

InitMetrics ==
    /\ engine \in {[historical_data |-> d] : d \in MetricsDatasets}
    /\ today = StartDay
    /\ customer_dict = MetricsCustomer
    /\ result = NoCall
    /\ previous = NoCall
    /\ pattern_analyzer = NoAnalyzer
    /\ cache_dir = NoFiles
    /\ now = 0

\* result = the risk score and the value of engine._estimate_policy_metrics(customer, risk_score)
EstimatePolicyMetrics ==
    /\ result = NoCall
    /\ \E risk_score \in MetricsRiskScores :
        result' = [status |-> "estimated", risk_score |-> risk_score,
                   metrics |-> _estimate_policy_metrics(engine, customer_dict,
                                                        risk_score, today)]
    /\ UNCHANGED <<engine, today, customer_dict, previous, pattern_analyzer, cache_dir, now>>

NextMetrics == EstimatePolicyMetrics

SpecMetrics == InitMetrics /\ [][NextMetrics]_vars

(***************************************************************************)
(* _calculate_confidence on its own, at the limits of its rule             *)
(***************************************************************************)
ConfidenceCustomers ==
    {[age |-> a, dangerous_hobbies |-> h, chronic_conditions |-> c] :
        a \in {180, 249, 250, 251, 450, 699, 700, 701, 800},
        h \in {T("None"), T("Skydiving")},
        c \in {T("None"), OneCondition, TwoConditions, ThreeConditions}}

\* steps whose weighted scores sum to totals around 0.7
ConfidenceSteps ==
    {<<[weighted_score |-> 1200], [weighted_score |-> w]>> :
        w \in {525, 5799, 5800, 5801, 7490}}

InitConfidence ==
    /\ engine = [historical_data |-> NoData]
    /\ today = StartDay
    /\ customer_dict \in ConfidenceCustomers
    /\ result = NoCall
    /\ previous = NoCall
    /\ pattern_analyzer = NoAnalyzer
    /\ cache_dir = NoFiles
    /\ now = 0

\* result = the steps and the value of engine._calculate_confidence(customer, steps)
CalculateConfidence ==
    /\ result = NoCall
    /\ \E steps \in ConfidenceSteps :
        result' = [status |-> "labelled", steps |-> steps,
                   confidence |-> _calculate_confidence(engine, customer_dict, steps)]
    /\ UNCHANGED <<engine, today, customer_dict, previous, pattern_analyzer, cache_dir, now>>

NextConfidence == CalculateConfidence

SpecConfidence == InitConfidence /\ [][NextConfidence]_vars

(***************************************************************************)
(* The two reference applicants, over every value of the fields their      *)
(* description leaves open                                                 *)
(***************************************************************************)
\* age 65, BMI 37, systolic 165, cholesterol 260, a current smoker, Class IV,
\* two chronic conditions, a dangerous hobby
HighRiskApplicants ==
    {[Unhealthy EXCEPT !.gender = g, !.alcohol_consumption = a, !.exercise_frequency = e,
                       !.family_history = f, !.dangerous_hobbies = h,
                       !.coverage_amount_requested = c] :
        g \in {T("Male"), T("Female")},
        a \in {T(k) : k \in DOMAIN alcohol_risk_map},
        e \in {T(k) : k \in DOMAIN exercise_risk_map},
        f \in {T("None"), OneHistory, TwoHistories, ThreeHistories},
        h \in {T("Skydiving"), Str(<<"Scuba Diving", " Rock Climbing">>, FALSE)},
        c \in {100000, 1000000}}

\* age 25, BMI 22, systolic 115, cholesterol 180, a never-smoker who does not
\* drink and exercises, Class I, no condition, history or hobby
LowRiskApplicants ==
    {[Healthy EXCEPT !.gender = g, !.coverage_amount_requested = c] :
        g \in {T("Male"), T("Female"), T("Other"), PyNone},
        c \in {100000, 250000}}

InitScenario ==
    /\ engine \in {[historical_data |-> d] : d \in Datasets}
    /\ today = StartDay
    /\ customer_dict \in HighRiskApplicants \cup LowRiskApplicants
    /\ result = NoCall
    /\ previous = NoCall
    /\ pattern_analyzer = NoAnalyzer
    /\ cache_dir = NoFiles
    /\ now = 0

\* result = engine.score_customer(customer_dict)
ScoreScenario ==
    /\ result = NoCall
    /\ result' = score_customer(engine, customer_dict, today)
    /\ UNCHANGED <<engine, today, customer_dict, previous, pattern_analyzer, cache_dir, now>>

NextScenario == ScoreScenario

SpecScenario == InitScenario /\ [][NextScenario]_vars

(***************************************************************************)
(* One call for every applicant, the riskiest ones included                *)
(***************************************************************************)
\* every factor in its highest tier
ExtremeApplicants ==
    {[Unhealthy EXCEPT !.age = a, !.bmi = b, !.chronic_conditions = c, !.family_history = f] :
        a \in {700, 950}, b \in {400, 450},
        c \in {ThreeConditions, FourConditions}, f \in {TwoHistories, ThreeHistories}}

InitApplicants ==
    /\ engine \in {[historical_data |-> d] : d \in Datasets}
    /\ today = StartDay
    /\ customer_dict \in Applicants \cup ExtremeApplicants
    /\ result = NoCall
    /\ previous = NoCall
    /\ pattern_analyzer = NoAnalyzer
    /\ cache_dir = NoFiles
    /\ now = 0

\* result = engine.score_customer(customer_dict)
ScoreApplicant ==
    /\ result = NoCall
    /\ result' = score_customer(engine, customer_dict, today)
    /\ customer_dict' = caller_record(customer_dict)
    /\ UNCHANGED <<engine, today, previous, pattern_analyzer, cache_dir, now>>

NextApplicants == ScoreApplicant

SpecApplicants == InitApplicants /\ [][NextApplicants]_vars

(***************************************************************************)
(* DataGenerator._calculate_risk_score, in hundred-thousandths: risks in   *)
(* thousandths times weights in hundredths                                 *)
(***************************************************************************)
generator_occupation_risk ==
    [k \in {"Class I (Low Risk)", "Class II (Moderate Risk)", "Class III (High Risk)",
            "Class IV (Very High Risk)"} |->
        CASE k = "Class I (Low Risk)" -> 200
          [] k = "Class II (Moderate Risk)" -> 400
          [] k = "Class III (High Risk)" -> 700
          [] k = "Class IV (Very High Risk)" -> 900]

generator_smoking_risk ==
    [k \in {"Never", "Former (>5 years)", "Former (<5 years)", "Current"} |->
        CASE k = "Never" -> 100
          [] k = "Former (>5 years)" -> 300
          [] k = "Former (<5 years)" -> 500
          [] k = "Current" -> 950]

generator_alcohol_risk ==
    [k \in {"None", "Light (1-2/week)", "Moderate (3-7/week)", "Heavy (>7/week)"} |->
        CASE k = "None" -> 200
          [] k = "Light (1-2/week)" -> 250
          [] k = "Moderate (3-7/week)" -> 400
          [] k = "Heavy (>7/week)" -> 800]

generator_exercise_risk ==
    [k \in {"Sedentary", "Light (1-2/week)", "Moderate (3-4/week)", "Active (5+/week)"} |->
        CASE k = "Sedentary" -> 700
          [] k = "Light (1-2/week)" -> 500
          [] k = "Moderate (3-4/week)" -> 300
          [] k = "Active (5+/week)" -> 150]

\* risk_score before the return: the twelve products, added up unrounded
generator_risk_sum(customer) ==
    LET age == customer.age
        age_risk == IF age < 300 THEN 100
                    ELSE IF age < 400 THEN 150
                    ELSE IF age < 500 THEN 250
                    ELSE IF age < 600 THEN 400
                    ELSE IF age < 700 THEN 600
                    ELSE 800
        gender_risk == IF customer.gender = T("Male") THEN 550 ELSE 450
        occupation_risk == generator_occupation_risk[customer.occupation_class.segs[1]]
        bmi == customer.bmi
        bmi_risk == IF bmi < 185 THEN 400
                    ELSE IF bmi < 250 THEN 200
                    ELSE IF bmi < 300 THEN 400
                    ELSE IF bmi < 350 THEN 600
                    ELSE IF bmi < 400 THEN 800
                    ELSE 950
        systolic == customer.blood_pressure_systolic
        bp_risk == IF systolic < 120 THEN 100
                   ELSE IF systolic < 130 THEN 300
                   ELSE IF systolic < 140 THEN 500
                   ELSE IF systolic < 160 THEN 700
                   ELSE 900
        total_chol == customer.total_cholesterol
        chol_risk == IF total_chol < 200 THEN 200
                     ELSE IF total_chol < 240 THEN 500
                     ELSE 800
        smoking_risk == generator_smoking_risk[customer.smoking_status.segs[1]]
        alcohol_risk == generator_alcohol_risk[customer.alcohol_consumption.segs[1]]
        exercise_risk == generator_exercise_risk[customer.exercise_frequency.segs[1]]
        chronic_risk == IF customer.chronic_conditions = T("None") THEN 100
                        ELSE Min(950, 400 + Len(Split(customer.chronic_conditions)) * 200)
        family_risk == IF customer.family_history = T("None") THEN 200
                       ELSE Min(800, 400 + Len(Split(customer.family_history)) * 200)
        hobby_risk == IF customer.dangerous_hobbies = T("None") THEN 100 ELSE 900
    IN  age_risk * 20 + gender_risk * 5 + occupation_risk * 10 + bmi_risk * 15
        + bp_risk * 10 + chol_risk * 8 + smoking_risk * 15 + alcohol_risk * 5
        + exercise_risk * 4 + chronic_risk * 10 + family_risk * 5 + hobby_risk * 3

\* variant of generator_clamp: min(0.90, max(0.01, risk_score))
generator_clamp_at_90(risk_score) == Min(90000, Max(1000, risk_score))

\* min(0.99, max(0.01, risk_score))
generator_clamp(risk_score) == Min(99000, Max(1000, risk_score))

\* the dict lookups raise KeyError for a value that is not a key
_calculate_risk_score(customer) ==
    IF ~InKeys(generator_occupation_risk, customer.occupation_class)
    THEN KeyError(customer.occupation_class)
    ELSE IF ~InKeys(generator_smoking_risk, customer.smoking_status)
    THEN KeyError(customer.smoking_status)
    ELSE IF ~InKeys(generator_alcohol_risk, customer.alcohol_consumption)
    THEN KeyError(customer.alcohol_consumption)
    ELSE IF ~InKeys(generator_exercise_risk, customer.exercise_frequency)
    THEN KeyError(customer.exercise_frequency)
    ELSE [status |-> "ok", risk_score |-> generator_clamp(generator_risk_sum(customer))]

(***************************************************************************)
(* normalize_customer_inputs on its own, over raw values of two of the     *)
(* categorical fields                                                      *)
(***************************************************************************)
RawTexts ==
    {PyNone, NaN, T(""), Padded(""), T("nan"), T("NaN"), Padded("NAN"), T("nAn"),
     T("None"), T("none"), T("Male"), Padded("Male"), TwoConditions,
     Str(<<"Hypertension", " Asthma">>, TRUE), Str(<<"nan", "">>, FALSE)}

NormalizeRecords ==
    LET base == [customer_id |-> "CUST-N", age |-> 450, annual_income |-> 75000,
                 occupation |-> T("Teacher")]
    IN  {base} \cup {Put(base, "gender", g) : g \in RawTexts}
        \cup {Put(Put(base, "gender", g), "chronic_conditions", c) :
                 g \in RawTexts, c \in RawTexts}

InitNormalize ==
    /\ engine = [historical_data |-> NoData]
    /\ today = StartDay
    /\ customer_dict \in NormalizeRecords
    /\ result = NoCall
    /\ previous = NoCall
    /\ pattern_analyzer = NoAnalyzer
    /\ cache_dir = NoFiles
    /\ now = 0

\* result = normalize_customer_inputs(customer_dict)
NormalizeCustomerInputs ==
    /\ result = NoCall
    /\ result' = [status |-> "normalized",
                  normalized |-> normalize_customer_inputs(customer_dict)]
    /\ customer_dict' = caller_record(customer_dict)
    /\ UNCHANGED <<engine, today, previous, pattern_analyzer, cache_dir, now>>

NextNormalize == NormalizeCustomerInputs

SpecNormalize == InitNormalize /\ [][NextNormalize]_vars

(***************************************************************************)
(* The endpoint POST /api/score-customer.  A field of the AI's answer is a *)
(* number (in hundredths), None, nan, or a text that is not a number.      *)
(***************************************************************************)
NoneValue == [kind |-> "None"]
Float(n)  == [kind |-> "float", n |-> n]
FloatNaN  == [kind |-> "nan"]
Text      == [kind |-> "str"]

\* the fields of a PatternInsight the endpoint and the formatter read
PatternInsight(suggested_price_position, risk_multiplier, claim_rate) ==
    [suggested_price_position |-> suggested_price_position,
     risk_multiplier |-> risk_multiplier,
     claim_rate |-> claim_rate,
     cohort_size |-> 40]

TypeError(what) == [status |-> "error", type |-> "TypeError", arg |-> T(what)]

\* round(insight.claim_rate * insight.cohort_size) and round(insight.claim_rate * 100, 2)
\* raise for a claim_rate that is not a number
format_pattern_for_display(insight) ==
    IF insight.claim_rate.kind # "float"
    THEN TypeError("claim_rate")
    ELSE [status |-> "ok",
          title |-> "AI Pattern Analysis",
          cohort_size |-> insight.cohort_size,
          cohort_claims_count |->
              IF insight.cohort_size # 0
              THEN RoundHalfEven(insight.claim_rate.n * insight.cohort_size, 100)
              ELSE 0,
          claim_rate_percentage |-> insight.claim_rate.n,
          ai_generated |-> TRUE,
          suggested_price_position |-> insight.suggested_price_position]

\* variant of suggested_position: float(suggested), not clamped
suggested_position_unclamped(suggested) ==
    CASE suggested.kind = "float" -> suggested
      [] suggested.kind = "nan" -> Float(100)
      [] OTHER -> NoneValue

\* max(0.0, min(1.0, float(suggested))), or None after TypeError or ValueError;
\* min(1.0, nan) is 1.0
suggested_position(suggested) ==
    CASE suggested.kind = "float" -> Float(Max(0, Min(100, suggested.n)))
      [] suggested.kind = "nan" -> Float(100)
      [] OTHER -> NoneValue

\* position, when pattern_insight is set
price_position(pattern_insight) ==
    LET suggested == pattern_insight.suggested_price_position
        position == IF suggested.kind = "None" THEN NoneValue
                    ELSE suggested_position(suggested)
        rm == IF pattern_insight.risk_multiplier.kind = "None" THEN 100
              ELSE pattern_insight.risk_multiplier.n
    IN  IF position.kind # "None" THEN position
        ELSE IF rm > 150 THEN Float(75)
        ELSE IF rm > 120 THEN Float(65)
        ELSE IF rm < 80 THEN Float(45)
        ELSE Float(60)

HTTPException(status_code, e) ==
    [status |-> "error", type |-> "HTTPException", status_code |-> status_code,
     detail |-> e.arg]

\* the endpoint after result = engine.score_customer(customer_dict), scored being
\* the outcome of that call: the PricingResult returned, or the HTTPException raised
api_response(eng, analyzer, customer, scored) ==
    IF IsError(scored) THEN HTTPException(500, scored) ELSE
    LET analysed == analyzer.enabled /\ ~IsError(analyzer.outcome)
        pattern_insight == IF analysed THEN analyzer.outcome.insight ELSE NoneValue
        ai_pattern_analysis ==
            IF ~analysed THEN NoneValue
            ELSE IF IsError(format_pattern_for_display(pattern_insight)) THEN NoneValue
            ELSE format_pattern_for_display(pattern_insight)
        low == scored.annual_premium_low
        high == scored.annual_premium_high
        base_recommendation == scored.annual_premium_calculated
        ai_recommended ==
            IF pattern_insight # NoneValue /\ high > low
            THEN Frac(low * 100 + (high - low) * price_position(pattern_insight).n, 100)
            ELSE Frac(base_recommendation, 1)
        summary ==
            _generate_summary(eng, customer, scored.final_risk_score, scored.scoring_steps,
                              [low |-> Frac(low, 1), recommended |-> ai_recommended,
                               high |-> Frac(high, 1)])
    IN  IF IsError(summary) THEN HTTPException(500, summary) ELSE
        [status |-> "ok",
         customer_id |-> scored.customer_id,
         final_risk_score |-> scored.final_risk_score,
         annual_premium_low |-> scored.annual_premium_low,
         annual_premium_calculated |-> scored.annual_premium_calculated,
         annual_premium_recommended |-> RoundFrac(ai_recommended),
         annual_premium_high |-> scored.annual_premium_high,
         predicted_policy_duration_years |-> scored.predicted_policy_duration_years,
         attrition_likelihood |-> scored.attrition_likelihood,
         scoring_steps |-> scored.scoring_steps,
         summary |-> summary,
         confidence_level |-> scored.confidence_level,
         ai_pattern_analysis |-> ai_pattern_analysis]

\* the response of the endpoint; the engine is called once
api_score_customer(eng, analyzer, customer, timestamp_today) ==
    CHOOSE response \in
        {api_response(eng, analyzer, customer, scored) :
            scored \in {score_customer(eng, customer, timestamp_today)}} : TRUE

\* requests that pass the validation of CustomerInput: every field present
EndpointCustomers ==
    {[b EXCEPT !.coverage_amount_requested = c] :
        b \in BaseProfiles, c \in {-100000, 0, 250000}}
    \cup {With(Average, "occupation_class", T("Class V")),
          With(Healthy, "smoking_status", T("Occasional"))}

Insights ==
    {PatternInsight(s, rm, cr) :
        s \in {NoneValue, Float(-50), Float(0), Float(30), Float(100), Float(250),
               FloatNaN, Text},
        rm \in {NoneValue, Float(50), Float(80), Float(100), Float(120), Float(130),
                Float(150), Float(200)},
        cr \in {Float(12), Text}}

\* the analyzer is off, or analyze_customer_patterns raises, or it returns an insight
Analyzers ==
    {NoAnalyzer,
     [enabled |-> TRUE,
      outcome |-> [status |-> "error", type |-> "Exception", arg |-> T("analysis")]]}
    \cup {[enabled |-> TRUE, outcome |-> [status |-> "ok", insight |-> i]] : i \in Insights}

InitEndpoint ==
    /\ engine \in {[historical_data |-> d] : d \in {NoData, HistoryA}}
    /\ today = StartDay
    /\ customer_dict \in EndpointCustomers
    /\ result = NoCall
    /\ previous = NoCall
    /\ pattern_analyzer \in Analyzers
    /\ cache_dir = NoFiles
    /\ now = 0

\* result = the response to POST /api/score-customer with body customer_dict
PostScoreCustomer ==
    /\ result = NoCall
    /\ result' = api_score_customer(engine, pattern_analyzer, customer_dict, today)
    /\ customer_dict' = caller_record(customer_dict)
    /\ UNCHANGED <<engine, today, previous, pattern_analyzer, cache_dir, now>>

NextEndpoint == PostScoreCustomer

SpecEndpoint == InitEndpoint /\ [][NextEndpoint]_vars

(***************************************************************************)
(* AICache: cache_dir maps a key to the content of its file, now is the    *)
(* clock time.time().  json.dump and json.load keep numbers, strings,      *)
(* lists and None as they are.                                             *)
(***************************************************************************)
MaxTime == 3

\* the fields of the dict that set writes
stored_fields ==
    {"pattern_description", "cohort_size", "claim_rate", "baseline_claim_rate",
     "risk_multiplier", "confidence", "key_factors", "recommendation",
     "statistical_significance", "suggested_price_position"}

\* AICache.set: the files after set(key, value, ttl) at the time time_time
AICache_set(files, key, value, ttl, time_time) ==
    LET value_dict == [f \in stored_fields |-> value[f]]
        data == [value |-> value_dict, expires_at |-> time_time + ttl,
                 cached_at |-> time_time]
    IN  Put(files, key, data)

\* AICache.get: the value returned by get(key) at the time time_time, and the
\* files after it
AICache_get(files, key, time_time) ==
    IF key \notin DOMAIN files THEN [value |-> NoneValue, files |-> files]
    ELSE IF time_time > files[key].expires_at
    THEN [value |-> NoneValue, files |-> Without(files, key)]
    ELSE
    LET data == files[key]
        rm == data.value.risk_multiplier.n
        value_dict ==
            IF "suggested_price_position" \notin DOMAIN data.value
            THEN Put(data.value, "suggested_price_position",
                     IF rm > 150 THEN Float(75)
                     ELSE IF rm < 90 THEN Float(45)
                     ELSE Float(60))
            ELSE data.value
    IN  [value |-> Put(value_dict, "key_factors_with_sentiment", NoneValue),
         files |-> files]

\* insights as _parse_claude_response and _fallback_pattern make them
CachedInsights ==
    {[pattern_description |-> "Similar profile", cohort_size |-> 40,
      claim_rate |-> Float(12), baseline_claim_rate |-> Float(8),
      risk_multiplier |-> Float(200), confidence |-> "medium",
      key_factors |-> <<"Age", "Smoking Status">>,
      recommendation |-> "Standard underwriting", statistical_significance |-> "Based on 40",
      suggested_price_position |-> s, key_factors_with_sentiment |-> k] :
        s \in {NoneValue, Float(30), Float(75)},
        k \in {NoneValue,
                [kind |-> "list",
                 items |-> <<[text |-> "Age", sentiment |-> "negative"],
                             [text |-> "Smoking Status", sentiment |-> "negative"]>>]}}

\* a file written before suggested_price_position was stored
LegacyFile ==
    [value |-> [f \in stored_fields \ {"suggested_price_position"} |->
                   (CHOOSE i \in CachedInsights : TRUE)[f]],
     expires_at |-> 2, cached_at |-> 0]

InitCache ==
    /\ engine = [historical_data |-> NoData]
    /\ today = StartDay
    /\ customer_dict = EmptyDict
    /\ result = NoCall
    /\ previous = NoCall
    /\ pattern_analyzer = [enabled |-> TRUE]
    /\ cache_dir \in {NoFiles, Put(NoFiles, "legacy", LegacyFile)}
    /\ now = 0

\* cache.set(key, value, ttl), once; previous records the call
CacheSet ==
    /\ previous = NoCall
    /\ \E key \in {"a1b2", "c3d4"}, value \in CachedInsights, ttl \in {0, 1} :
        /\ cache_dir' = AICache_set(cache_dir, key, value, ttl, now)
        /\ previous' = [status |-> "set", key |-> key, value |-> value, ttl |-> ttl,
                        at |-> now]
    /\ result' = NoCall
    /\ UNCHANGED <<engine, today, customer_dict, pattern_analyzer, now>>

\* result = cache.get(key)
CacheGet ==
    /\ \E key \in {"a1b2", "c3d4", "legacy", "e5f6"} :
        /\ result' = [status |-> "got", key |-> key, at |-> now,
                      value |-> AICache_get(cache_dir, key, now).value]
        /\ cache_dir' = AICache_get(cache_dir, key, now).files
    /\ UNCHANGED <<engine, today, customer_dict, previous, pattern_analyzer, now>>

\* time passes
Advance ==
    /\ now < MaxTime
    /\ now' = now + 1
    /\ UNCHANGED <<engine, today, customer_dict, result, previous, pattern_analyzer,
                   cache_dir>>

NextCache == CacheSet \/ CacheGet \/ Advance

SpecCache == InitCache /\ [][NextCache]_vars

(***************************************************************************)
(* Properties                                                              *)
(***************************************************************************)
Called == result # NoCall
Returned == result.status = "ok"

\* the record the scoring functions see
Normalized == normalize_customer_inputs(customer_dict)

StepWeights(steps) == [i \in DOMAIN steps |-> steps[i].weight]

RECURSIVE SumSeq(_)
SumSeq(s) == IF s = <<>> THEN 0 ELSE s[1] + SumSeq(Tail(s))

\* C1: the weights of the twelve scoring steps of a result sum to exactly 1.0
\* (100 hundredths).  The code's weights sum to 1.10.
C1_WeightsSumToOne ==
    Returned => SumSeq(StepWeights(result.scoring_steps)) = 100

\* C2: every result holds exactly twelve scoring steps and its final_risk_score
\* is the sum of their twelve weighted_score values.
C2_TwelveStepsSum ==
    Returned =>
        /\ Len(result.scoring_steps) = 12
        /\ result.final_risk_score =
              result.scoring_steps[1].weighted_score + result.scoring_steps[2].weighted_score
            + result.scoring_steps[3].weighted_score + result.scoring_steps[4].weighted_score
            + result.scoring_steps[5].weighted_score + result.scoring_steps[6].weighted_score
            + result.scoring_steps[7].weighted_score + result.scoring_steps[8].weighted_score
            + result.scoring_steps[9].weighted_score + result.scoring_steps[10].weighted_score
            + result.scoring_steps[11].weighted_score + result.scoring_steps[12].weighted_score

C2_Witness ==
    /\ Returned
    /\ customer_dict = Unhealthy
    /\ result.final_risk_score = 8690

\* C3 as stated: in every result low <= recommended <= high, and low < high
\* whenever the requested coverage is positive, however small.
C3_BandForEveryPositiveCoverage ==
    Returned =>
        /\ result.annual_premium_low <= result.annual_premium_recommended
        /\ result.annual_premium_recommended <= result.annual_premium_high
        /\ customer_dict.coverage_amount_requested > 0
               => result.annual_premium_low < result.annual_premium_high

\* C3 amended: for a coverage >= 0, low <= recommended <= high; for a coverage of
\* at least $41 (a band wider than one cent before rounding), low < high.
C3_BandOrdered ==
    Returned =>
        /\ customer_dict.coverage_amount_requested >= 0 =>
               /\ result.annual_premium_low <= result.annual_premium_recommended
               /\ result.annual_premium_recommended <= result.annual_premium_high
        /\ customer_dict.coverage_amount_requested >= 41 =>
               result.annual_premium_low < result.annual_premium_high

C3_Witness ==
    /\ Returned
    /\ customer_dict.coverage_amount_requested = 41
    /\ result.annual_premium_low < result.annual_premium_recommended
    /\ result.annual_premium_recommended < result.annual_premium_high

\* equality of two fractions, whatever their terms
SameFraction(p, q) == Frac(p.n, p.d) = Frac(q.n, q.d)

\* the reference formula of the pricing rule, in cents
ReferenceRate(age) ==
    LET table == <<[below |-> 300, rate |-> 60], [below |-> 400, rate |-> 80],
                   [below |-> 500, rate |-> 150], [below |-> 600, rate |-> 300]>>
        tiers == {i \in DOMAIN table : age < table[i].below}
    IN  IF tiers = {} THEN 600
        ELSE table[CHOOSE i \in tiers : \A j \in tiers : i <= j].rate

\* the position in the band, in hundredths
ReferencePosition(risk_score) ==
    CASE risk_score < 3000 -> 40
      [] risk_score >= 3000 /\ risk_score < 6000 -> 60
      [] risk_score >= 6000 -> 75

ReferencePricing(age, risk_score, coverage) ==
    LET base_premium ==
            Times(Times(Frac(coverage, 1000), ReferenceRate(age), 1),
                  5000 + 3 * risk_score, 10000)
        position == ReferencePosition(risk_score)
    IN  [low |-> Times(base_premium, 85, 100),
         high |-> Times(base_premium, 125, 100),
         \* low + (high - low) * position = base_premium * (0.85 + 0.40 * position)
         recommended |-> Times(base_premium, 8500 + 40 * position, 10000)]

\* C4: _calculate_pricing equals the reference formula for every age, risk score
\* and coverage; the boundaries 30/40/50/60 and 0.3/0.6 belong to the upper tier.
C4_PricingFormula ==
    result.status = "priced" =>
        LET ref == ReferencePricing(customer_dict.age, result.risk_score,
                                    customer_dict.coverage_amount_requested)
        IN  /\ SameFraction(result.pricing.low, ref.low)
            /\ SameFraction(result.pricing.high, ref.high)
            /\ SameFraction(result.pricing.recommended, ref.recommended)
            /\ SameFraction(result.pricing.calculated, ref.recommended)

\* age 30.0 with a risk score of exactly 0.3 and $1000 of coverage: rate 0.80,
\* multiplier 1.4, base premium 1.12, low 0.952, high 1.40, position 0.6
C4_Witness ==
    /\ result.status = "priced"
    /\ customer_dict.age = 300
    /\ customer_dict.coverage_amount_requested = 1000
    /\ result.risk_score = 3000
    /\ SameFraction(result.pricing.low, Frac(952, 10))
    /\ SameFraction(result.pricing.high, Frac(140, 1))
    /\ SameFraction(result.pricing.recommended, Frac(12208, 100))

\* C5: scoring the same record twice against the same dataset returns results
\* identical in every field.
C5_SameResultTwice ==
    previous # NoCall => result = previous

\* what C6 says the dataset cannot influence
ScoreFields(r) ==
    [final_risk_score |-> r.final_risk_score,
     steps |-> [i \in DOMAIN r.scoring_steps |->
                   <<r.scoring_steps[i].risk_contribution, r.scoring_steps[i].weight,
                     r.scoring_steps[i].weighted_score>>],
     annual_premium_low |-> r.annual_premium_low,
     annual_premium_calculated |-> r.annual_premium_calculated,
     annual_premium_high |-> r.annual_premium_high,
     confidence_level |-> r.confidence_level]

\* C6: the result of a call has the score, step values, prices and confidence
\* that the same call gives under any other historical dataset, or none.
C6_DatasetDoesNotInfluenceScore ==
    (Returned /\ previous = NoCall) =>
        \A d \in Datasets :
            LET other == score_customer([historical_data |-> d], customer_dict, today)
            IN  /\ other.status = "ok"
                /\ ScoreFields(other) = ScoreFields(result)

\* a call under HistoryA whose steps carry cohort data
C6_Witness ==
    /\ Returned
    /\ previous = NoCall
    /\ engine.historical_data = HistoryA
    /\ customer_dict = Unhealthy
    /\ result.scoring_steps[12].supporting_data # EmptyDict
    /\ result.scoring_steps[12].risk_contribution = 900

\* C7: an occupation_class of "Class V" raises an InvalidCategory error that
\* names the field occupation_class.
C7_InvalidCategoryNamesField ==
    (Called /\ Get(customer_dict, "occupation_class") = T("Class V")) =>
        /\ result.status = "error"
        /\ result.type = "InvalidCategory"
        /\ result.arg = T("occupation_class")

MapScored ==
    [occupation_class |-> occupation_risk_map, smoking_status |-> smoking_risk_map,
     alcohol_consumption |-> alcohol_risk_map, exercise_frequency |-> exercise_risk_map]

\* C8: a value outside the key set of the map of occupation_class, smoking_status,
\* alcohol_consumption or exercise_frequency makes the call fail: no result.
C8_UnmappedValueFails ==
    (Called /\ \E f \in DOMAIN MapScored : ~InKeys(MapScored[f], Normalized[f]))
        => result.status = "error"

\* an exercise_frequency of "   " is normalized to "None", which is no key
C8_Witness ==
    /\ Called
    /\ Has(customer_dict, "exercise_frequency")
    /\ customer_dict.exercise_frequency = Padded("")
    /\ Normalized.exercise_frequency = T("None")
    /\ result = KeyError(T("None"))

\* C9: a gender that is neither "Male" nor "Female" makes the call fail.
C9_NonBinaryGenderFails ==
    (Called /\ Normalized.gender \notin {T("Male"), T("Female")})
        => result.status = "error"

\* C10 as stated: a record that lacks any attribute makes the call fail.
C10_AbsentAttributeFails ==
    (Called /\ \E f \in AllFields : ~Has(customer_dict, f)) => result.status = "error"

\* attributes read with customer[...], and text attributes whose maps have no "None"
FatalWhenAbsent ==
    {"customer_id", "age", "bmi", "blood_pressure_systolic", "blood_pressure_diastolic",
     "total_cholesterol", "hdl_cholesterol", "ldl_cholesterol",
     "coverage_amount_requested",
     "occupation_class", "smoking_status", "exercise_frequency"}

\* text attributes of which "None" is a category: the step and its risk when absent
ScoredAsNone ==
    [alcohol_consumption |-> [step |-> 8, risk |-> 200],
     chronic_conditions |-> [step |-> 10, risk |-> 100],
     family_history |-> [step |-> 11, risk |-> 200],
     dangerous_hobbies |-> [step |-> 12, risk |-> 100]]

\* C10 amended: the call fails when a numeric attribute a factor reads, the
\* customer_id, the coverage, or occupation_class, smoking_status or
\* exercise_frequency is absent; an absent alcohol_consumption, chronic_conditions,
\* family_history or dangerous_hobbies is scored as the category "None".
C10_AbsentAttribute ==
    Called =>
        /\ (\E f \in FatalWhenAbsent : ~Has(customer_dict, f)) => result.status = "error"
        /\ \A f \in DOMAIN ScoredAsNone :
               ~Has(customer_dict, f) =>
                   LET filled == score_customer(engine, Put(customer_dict, f, T("None")),
                                                today)
                   IN  /\ result.status = filled.status
                       /\ Returned =>
                            /\ result.scoring_steps[ScoredAsNone[f].step].value = T("None")
                            /\ result.scoring_steps[ScoredAsNone[f].step].risk_contribution
                                   = ScoredAsNone[f].risk

C10_Witness ==
    /\ Returned
    /\ customer_dict = Without(Unhealthy, "chronic_conditions")
    /\ result.scoring_steps[10].risk_contribution = 100

\* the rows a factor compares the applicant c with (its cohort filter), by step number
ReferenceCohort(i, c, rows) ==
    CASE i = 1 -> SelectSeq(rows, LAMBDA r : c.age - 50 <= r.age /\ r.age <= c.age + 50)
      [] i = 2 -> SelectSeq(rows, LAMBDA r : r.gender = c.gender)
      [] i = 3 -> SelectSeq(rows, LAMBDA r : r.occupation_class = c.occupation_class)
      [] i = 4 -> SelectSeq(rows, LAMBDA r : c.bmi - 20 <= r.bmi /\ r.bmi <= c.bmi + 20)
      [] i = 5 -> SelectSeq(rows, LAMBDA r :
                      /\ c.blood_pressure_systolic - 10 <= r.blood_pressure_systolic
                      /\ r.blood_pressure_systolic <= c.blood_pressure_systolic + 10)
      [] i = 6 -> SelectSeq(rows, LAMBDA r :
                      /\ c.total_cholesterol - 20 <= r.total_cholesterol
                      /\ r.total_cholesterol <= c.total_cholesterol + 20)
      [] i = 7 -> SelectSeq(rows, LAMBDA r : r.smoking_status = c.smoking_status)
      [] i = 8 -> SelectSeq(rows, LAMBDA r : r.alcohol_consumption = c.alcohol_consumption)
      [] i = 9 -> SelectSeq(rows, LAMBDA r : r.exercise_frequency = c.exercise_frequency)
      [] i = 10 -> SelectSeq(rows, LAMBDA r :
                      IF c.chronic_conditions = T("None")
                      THEN r.chronic_conditions = T("None")
                      ELSE Len(r.chronic_conditions.segs) = Len(c.chronic_conditions.segs))
      [] i = 11 -> SelectSeq(rows, LAMBDA r :
                      IF c.family_history = T("None")
                      THEN r.family_history = T("None")
                      ELSE Len(r.family_history.segs) = Len(c.family_history.segs))
      [] i = 12 -> SelectSeq(rows, LAMBDA r :
                      (r.dangerous_hobbies = T("None")) = (c.dangerous_hobbies = T("None")))

\* C11: a record that is scored over a full dataset is scored, with the same
\* scores and prices, whatever the dataset; a step whose cohort is empty, or
\* every step when no dataset is loaded, has no supporting_data and no cohort
\* sentence.
C11_MissingContextNotFatal ==
    (Called /\ previous = NoCall) =>
        LET scored == score_customer([historical_data |-> HistoryA], customer_dict, today)
        IN  scored.status = "ok" =>
                /\ Returned
                /\ ScoreFields(result) = ScoreFields(scored)
                /\ \A i \in 1..12 :
                       (\/ ~engine.historical_data.loaded
                        \/ ReferenceCohort(i, Normalized, engine.historical_data.rows) = <<>>)
                       => /\ result.scoring_steps[i].supporting_data = EmptyDict
                          /\ ~result.scoring_steps[i].explanation.cohort_sentence

\* nobody in HistoryB drinks heavily; somebody smokes
C11_Witness ==
    /\ Returned
    /\ engine.historical_data = HistoryB
    /\ customer_dict = Unhealthy
    /\ result.scoring_steps[8].supporting_data = EmptyDict
    /\ result.scoring_steps[7].supporting_data # EmptyDict

\* C12: a record that is scored without a dataset is also scored over a dataset
\* that lacks an outcome column.
C12_MissingColumnNotFatal ==
    (Called /\ previous = NoCall) =>
        (score_customer([historical_data |-> NoData], customer_dict, today).status = "ok"
            => Returned)

\* the cohorts of the duration/attrition estimate, as the rule describes them
ReferencePrimary(c, rows) ==
    SelectSeq(rows, LAMBDA r : /\ c.age - 50 <= r.age /\ r.age <= c.age + 50
                               /\ r.occupation_class = c.occupation_class
                               /\ r.smoking_status = c.smoking_status)

ReferenceRelaxed(c, rows) ==
    SelectSeq(rows, LAMBDA r : /\ c.age - 100 <= r.age /\ r.age <= c.age + 100
                               /\ r.smoking_status = c.smoking_status)

ReferenceAgeWindow(c, rows) ==
    SelectSeq(rows, LAMBDA r : c.age - 100 <= r.age /\ r.age <= c.age + 100)

ReferenceFinalCohort(c, rows) ==
    IF Len(ReferencePrimary(c, rows)) >= 50 THEN ReferencePrimary(c, rows)
    ELSE IF Len(ReferenceRelaxed(c, rows)) >= 30 THEN ReferenceRelaxed(c, rows)
    ELSE ReferenceAgeWindow(c, rows)

Accepted(rows) == SelectSeq(rows, LAMBDA r : r.policy_accepted)
Dated(rows)    == SelectSeq(rows, LAMBDA r : r.policy_issue_date.valid)
Active(rows)   == SelectSeq(rows, LAMBDA r : r.policy_active)

Clamp(q, lo, hi) == IF FLess(q, lo) THEN lo ELSE IF FLess(hi, q) THEN hi ELSE q

\* 1 - (active accepted rows / accepted rows)
ReferenceAttrition(rows) ==
    Frac(Len(Accepted(rows)) - Len(Active(Accepted(rows))), Len(Accepted(rows)))

\* average tenure in years of the rows, all of them dated: days / 365.25
ReferenceTenure(rows) ==
    Frac(4 * SumSeq([i \in DOMAIN rows |-> today - rows[i].policy_issue_date.day]),
         1461 * Len(rows))

\* the tenure of the active policies when there is one, else of all
ReferenceDuration(rows) ==
    Clamp(IF Active(Dated(Accepted(rows))) # <<>>
          THEN ReferenceTenure(Active(Dated(Accepted(rows))))
          ELSE ReferenceTenure(Dated(Accepted(rows))),
          Frac(1, 1), Frac(30, 1))

Estimated == result.status = "estimated"

\* the final cohort of the estimate in the current state
FinalCohort == ReferenceFinalCohort(customer_dict, engine.historical_data.rows)

\* C13: the estimate is computed from the primary cohort when it has 50 rows or
\* more, else from the relaxed cohort when that has 30 rows or more, else from
\* all rows in the 10-year age window: the attrition, and the duration when every
\* accepted row of that cohort is dated, are those of that cohort.
C13_CohortRelaxation ==
    (Estimated /\ Dated(Accepted(FinalCohort)) # <<>>) =>
        /\ SameFraction(result.metrics.attrition_likelihood, ReferenceAttrition(FinalCohort))
        /\ Dated(Accepted(FinalCohort)) = Accepted(FinalCohort) =>
               SameFraction(result.metrics.predicted_duration_years,
                            ReferenceDuration(FinalCohort))

\* no primary row, thirty rows in the relaxed cohort only, two more in the age
\* window: the thirty decide (none lapsed; 3000 days of tenure)
C13_Witness ==
    /\ Estimated
    /\ ReferencePrimary(customer_dict, engine.historical_data.rows) = <<>>
    /\ FinalCohort = Repeat(RelaxedActive, 30)
    /\ Len(ReferenceAgeWindow(customer_dict, engine.historical_data.rows)) = 32
    /\ SameFraction(result.metrics.attrition_likelihood, Frac(0, 1))
    /\ SameFraction(result.metrics.predicted_duration_years, Frac(4 * 3000, 1461))

\* C14: with an accepted, dated row in the final cohort, the attrition is
\* 1 - active/accepted over the accepted rows of the final cohort, within [0, 1],
\* and the duration is within [1, 30].
C14_AttritionAndRanges ==
    (Estimated /\ Dated(Accepted(FinalCohort)) # <<>>) =>
        LET accepted == Accepted(FinalCohort)
            attrition == result.metrics.attrition_likelihood
            duration == result.metrics.predicted_duration_years
        IN  /\ attrition.n * Len(accepted) = (Len(accepted) - Len(Active(accepted))) * attrition.d
            /\ 0 <= attrition.n /\ attrition.n <= attrition.d
            /\ duration.d <= duration.n /\ duration.n <= 30 * duration.d

\* 20 active and 1 lapsed primary rows, 9 active and 1 undated lapsed relaxed rows:
\* 2 of 31 accepted rows are not active
C14_Witness ==
    /\ Estimated
    /\ Len(Accepted(FinalCohort)) = 31
    /\ Len(Active(Accepted(FinalCohort))) = 29
    /\ result.metrics.attrition_likelihood = Frac(2, 31)

\* C15: with an active, dated, accepted row in the final cohort, the duration is
\* the average tenure of the active dated rows only, also when other accepted
\* rows are undated.
C15_ActiveTenureOnly ==
    (Estimated /\ Active(Dated(Accepted(FinalCohort))) # <<>>) =>
        SameFraction(result.metrics.predicted_duration_years,
                     Clamp(ReferenceTenure(Active(Dated(Accepted(FinalCohort)))),
                           Frac(1, 1), Frac(30, 1)))

\* the closed form, in years and as a probability
ReferenceClosedForm(risk_score) ==
    [duration |-> Clamp(Frac(120000 - 6 * risk_score, 10000), Frac(3, 1), Frac(20, 1)),
     attrition |-> Clamp(Frac(120000 + 25 * risk_score, 1000000),
                         Frac(5, 100), Frac(60, 100))]

RECURSIVE MinTenure(_)
MinTenure(rows) ==
    IF Len(rows) = 1 THEN today - rows[1].policy_issue_date.day
    ELSE Min(today - rows[1].policy_issue_date.day, MinTenure(Tail(rows)))

RECURSIVE MaxTenure(_)
MaxTenure(rows) ==
    IF Len(rows) = 1 THEN today - rows[1].policy_issue_date.day
    ELSE Max(today - rows[1].policy_issue_date.day, MaxTenure(Tail(rows)))

\* C16: the closed form is returned when there is no dataset or an empty one,
\* when the final cohort has no accepted row, and when no accepted row is dated;
\* otherwise the estimate comes from the cohort: its attrition, and a duration
\* between the shortest and the longest tenure of its dated accepted rows.
C16_FallbackExactlyWhen ==
    Estimated =>
        LET closed == ReferenceClosedForm(result.risk_score)
            dated == Dated(Accepted(FinalCohort))
        IN  IF \/ ~engine.historical_data.loaded
               \/ engine.historical_data.rows = <<>>
               \/ Accepted(FinalCohort) = <<>>
               \/ dated = <<>>
            THEN /\ SameFraction(result.metrics.predicted_duration_years, closed.duration)
                 /\ SameFraction(result.metrics.attrition_likelihood, closed.attrition)
            ELSE /\ SameFraction(result.metrics.attrition_likelihood,
                                 ReferenceAttrition(FinalCohort))
                 /\ FLeq(Clamp(Frac(4 * MinTenure(dated), 1461), Frac(1, 1), Frac(30, 1)),
                         result.metrics.predicted_duration_years)
                 /\ FLeq(result.metrics.predicted_duration_years,
                         Clamp(Frac(4 * MaxTenure(dated), 1461), Frac(1, 1), Frac(30, 1)))

\* the only accepted row of the final cohort is undated: a risk score of 1.6
\* gives 12 - 9.6 years, clamped to 3, and 0.12 + 0.4, 0.52
C16_Witness ==
    /\ Estimated
    /\ Accepted(FinalCohort) = <<RelaxedUndated>>
    /\ result.risk_score = 16000
    /\ result.metrics.predicted_duration_years = Frac(3, 1)
    /\ result.metrics.attrition_likelihood = Frac(52, 100)

\* the product of the four factors, in hundred-millionths
ReferenceConfidenceScore(age, total_risk, hobby, conditions) ==
      (IF age < 250 \/ age > 700 THEN 90 ELSE 100)
    * (IF total_risk > 7000 THEN 85 ELSE 100)
    * (IF hobby # T("None") THEN 90 ELSE 100)
    * (IF conditions # T("None") /\ Len(conditions.segs) >= 2 THEN 92 ELSE 100)

ReferenceConfidenceLabel(score) ==
    CASE score >= 95000000 -> "Very High"
      [] score < 95000000 /\ score >= 85000000 -> "High"
      [] score < 85000000 /\ score >= 75000000 -> "Moderate"
      [] score < 75000000 -> "Low"

\* C17: _calculate_confidence returns the label of the product of the four
\* reductions; ages 25 and 70 and a summed risk of exactly 0.7 reduce nothing.
C17_ConfidenceRule ==
    result.status = "labelled" =>
        result.confidence =
            ReferenceConfidenceLabel(
                ReferenceConfidenceScore(
                    customer_dict.age,
                    SumSeq([i \in DOMAIN result.steps |-> result.steps[i].weighted_score]),
                    customer_dict.dangerous_hobbies,
                    customer_dict.chronic_conditions))

\* age 70, a summed risk of exactly 0.7, no hobby, one condition: no reduction
C17_Witness ==
    /\ result.status = "labelled"
    /\ customer_dict.age = 700
    /\ result.steps[1].weighted_score + result.steps[2].weighted_score = 7000
    /\ customer_dict.dangerous_hobbies = T("None")
    /\ customer_dict.chronic_conditions = OneCondition
    /\ result.confidence = "Very High"

\* the applicant of the high-risk scenario, the other fields being in their domains
HighRiskScenario ==
    /\ customer_dict.age = 650 /\ customer_dict.bmi = 370
    /\ customer_dict.blood_pressure_systolic = 165
    /\ customer_dict.total_cholesterol = 260
    /\ customer_dict.smoking_status = T("Current")
    /\ customer_dict.occupation_class = T("Class IV (Very High Risk)")
    /\ Len(customer_dict.chronic_conditions.segs) = 2
    /\ customer_dict.dangerous_hobbies # T("None")
    /\ customer_dict.gender \in {T("Male"), T("Female")}
    /\ InKeys(alcohol_risk_map, customer_dict.alcohol_consumption)
    /\ InKeys(exercise_risk_map, customer_dict.exercise_frequency)

\* C18: the high-risk applicant is scored above 0.65 and priced at three quarters
\* of the band: recommended = low + 0.75 * (high - low), each of the three being
\* rounded to the cent.
C18_HighRiskScenario ==
    (Called /\ HighRiskScenario) =>
        /\ Returned
        /\ result.final_risk_score > 6500
        /\ Abs(4 * result.annual_premium_recommended
               - (result.annual_premium_low + 3 * result.annual_premium_high)) <= 4

\* the most favourable open fields: a woman who does not drink, exercises and
\* has no family history is scored 0.782
C18_Witness ==
    /\ Returned
    /\ HighRiskScenario
    /\ customer_dict.gender = T("Female")
    /\ customer_dict.alcohol_consumption = T("None")
    /\ customer_dict.exercise_frequency = T("Active (5+/week)")
    /\ customer_dict.family_history = T("None")
    /\ result.final_risk_score = 7820
    /\ result.annual_premium_low < result.annual_premium_recommended

LowRiskScenario ==
    /\ customer_dict.age = 250 /\ customer_dict.bmi = 220
    /\ customer_dict.blood_pressure_systolic = 115
    /\ customer_dict.total_cholesterol = 180
    /\ customer_dict.smoking_status = T("Never")
    /\ customer_dict.alcohol_consumption = T("None")
    /\ customer_dict.exercise_frequency = T("Active (5+/week)")
    /\ customer_dict.chronic_conditions = T("None")
    /\ customer_dict.family_history = T("None")
    /\ customer_dict.dangerous_hobbies = T("None")
    /\ customer_dict.occupation_class = T("Class I (Low Risk)")

\* C19: the low-risk applicant, of whatever gender, is scored below 0.3 with a
\* confidence of "Very High" or "High".
C19_LowRiskScenario ==
    (Called /\ LowRiskScenario) =>
        /\ Returned
        /\ result.final_risk_score < 3000
        /\ result.confidence_level \in {"Very High", "High"}

C19_Witness ==
    /\ Returned
    /\ LowRiskScenario
    /\ customer_dict.gender = T("Male")
    /\ result.final_risk_score = 1775
    /\ result.confidence_level = "Very High"

\* the number of entries separated by ';'
Entries(text) == Len(text.segs)

\* C20: the chronic-conditions risk is 0.1 for "None", else 0.6 for one entry,
\* 0.8 for two, 0.95 for three or more; the family-history risk is 0.2 for
\* "None", else 0.6 for one entry and 0.8 for two or more.
C20_CountFormulas ==
    Returned =>
        LET conditions == Normalized.chronic_conditions
            history == Normalized.family_history
        IN  /\ result.scoring_steps[10].risk_contribution =
                   (CASE conditions = T("None") -> 100
                      [] conditions # T("None") /\ Entries(conditions) = 1 -> 600
                      [] conditions # T("None") /\ Entries(conditions) = 2 -> 800
                      [] conditions # T("None") /\ Entries(conditions) >= 3 -> 950)
            /\ result.scoring_steps[11].risk_contribution =
                   (CASE history = T("None") -> 200
                      [] history # T("None") /\ Entries(history) = 1 -> 600
                      [] history # T("None") /\ Entries(history) >= 2 -> 800)

\* four conditions and three family histories: both caps apply
C20_Witness ==
    /\ Returned
    /\ Normalized.chronic_conditions = FourConditions
    /\ Normalized.family_history = ThreeHistories
    /\ result.scoring_steps[10].risk_contribution = 950
    /\ result.scoring_steps[11].risk_contribution = 800

\* C21: final_risk_score is the sum of the twelve products risk * weight, rounded
\* to 4 decimals once: rounding each weighted score first changes nothing.
C21_RoundingNeverChangesSum ==
    Returned =>
        result.final_risk_score =
            RoundHalfEven(
                SumSeq([i \in 1..12 |-> result.scoring_steps[i].risk_contribution
                                        * result.scoring_steps[i].weight]),
                10)

\* a current smoker: 0.95 * 0.15 = 0.1425 needs all four decimals
C21_Witness ==
    /\ Returned
    /\ result.scoring_steps[7].risk_contribution = 950
    /\ result.scoring_steps[7].weighted_score = 1425

\* a raw value that stands for no value: None, NaN, empty or whitespace only, or
\* "nan" in any letter case, with or without whitespace around it
Blank(value) ==
    \/ value.kind \in {"None", "nan"}
    \/ /\ value.kind = "str"
       /\ value.segs \in {<<"">>, <<"nan">>, <<"naN">>, <<"nAn">>, <<"nAN">>,
                          <<"Nan">>, <<"NaN">>, <<"NAn">>, <<"NAN">>}

\* C22: each of the nine categorical fields becomes "None" when missing or blank,
\* else the value without surrounding whitespace; the other fields are
\* unchanged; normalizing the normalized record changes nothing.
C22_NormalizeInputs ==
    result.status = "normalized" =>
        LET normalized == result.normalized
        IN  /\ DOMAIN normalized = (DOMAIN customer_dict) \cup
                   {"gender", "occupation", "occupation_class", "smoking_status",
                    "alcohol_consumption", "exercise_frequency", "chronic_conditions",
                    "family_history", "dangerous_hobbies"}
            /\ \A f \in DOMAIN normalized :
                   IF f \in {"gender", "occupation", "occupation_class", "smoking_status",
                             "alcohol_consumption", "exercise_frequency",
                             "chronic_conditions", "family_history", "dangerous_hobbies"}
                   THEN IF f \notin DOMAIN customer_dict \/ Blank(Get(customer_dict, f))
                        THEN normalized[f] = T("None")
                        ELSE normalized[f] = [kind |-> "str", ws |-> FALSE,
                                              segs |-> customer_dict[f].segs]
                   ELSE normalized[f] = customer_dict[f]
            /\ normalize_customer_inputs(normalized) = normalized

\* gender "  NAN  " and a padded list of two conditions
C22_Witness ==
    /\ result.status = "normalized"
    /\ Get(customer_dict, "gender") = Padded("NAN")
    /\ Get(customer_dict, "chronic_conditions") = Str(<<"Hypertension", " Asthma">>, TRUE)
    /\ result.normalized.gender = T("None")
    /\ result.normalized.chronic_conditions = Str(<<"Hypertension", " Asthma">>, FALSE)
    /\ result.normalized.family_history = T("None")

NumConditions(conditions) == IF conditions = T("None") THEN 0 ELSE Len(Split(conditions))

\* C26: for an applicant with n >= 1 chronic conditions, the cohort of the
\* chronic-conditions step is the rows with exactly n conditions; rows whose
\* chronic_conditions is "None" are not in the cohort of a one-condition applicant.
C26_CohortSameNumberOfConditions ==
    (/\ Returned
     /\ engine.historical_data.loaded
     /\ Normalized.chronic_conditions # T("None")) =>
        LET n == NumConditions(Normalized.chronic_conditions)
            cohort == SelectSeq(engine.historical_data.rows,
                                LAMBDA r : NumConditions(r.chronic_conditions) = n)
        IN  result.scoring_steps[10].supporting_data =
                IF Len(cohort) > 0
                THEN [cohort_size |-> Len(cohort),
                      avg_risk_score |-> AvgRiskScore(cohort),
                      claim_rate |-> ClaimRate(cohort)]
                ELSE EmptyDict

\* a record as the generator makes them: every attribute present, every category
\* a plain string of the generator's lists
InDomain(c) ==
    /\ AllFields \subseteq DOMAIN c
    /\ \A f \in TextFieldSet : c[f].kind = "str" /\ ~c[f].ws /\ ~Blank(c[f])
    /\ c.gender \in {T("Male"), T("Female")}
    /\ InKeys(occupation_risk_map, c.occupation_class)
    /\ InKeys(smoking_risk_map, c.smoking_status)
    /\ InKeys(alcohol_risk_map, c.alcohol_consumption)
    /\ c.exercise_frequency \in {T("Sedentary"), T("Light (1-2/week)"),
                                 T("Moderate (3-4/week)"), T("Active (5+/week)")}

\* C29: for an applicant with in-domain categorical values the engine's
\* final_risk_score is the generator's risk score for the same attributes, and
\* the generator's clamp to [0.01, 0.99] leaves the sum unchanged.
C29_EngineEqualsGenerator ==
    (Called /\ InDomain(customer_dict)) =>
        /\ Returned
        /\ _calculate_risk_score(customer_dict).status = "ok"
        /\ _calculate_risk_score(customer_dict).risk_score = 10 * result.final_risk_score
        /\ _calculate_risk_score(customer_dict).risk_score = generator_risk_sum(customer_dict)

\* an applicant of 70 or more with a score above 0.9
C29_Witness ==
    /\ Returned
    /\ InDomain(customer_dict)
    /\ customer_dict.age >= 700
    /\ customer_dict.chronic_conditions # T("None")
    /\ result.final_risk_score > 9000

\* C27: for every applicant that score_customer accepts, each factor's risk is
\* in [0, 1] and final_risk_score is in [0.1725, 0.9465]; the closed form at that
\* score is 12 - 6 * score years and 0.12 + 0.25 * score, inside its clamps.
C27_ScoreRange ==
    Returned =>
        /\ \A i \in 1..12 :
               /\ result.scoring_steps[i].risk_contribution >= 0
               /\ result.scoring_steps[i].risk_contribution <= 1000
        /\ result.final_risk_score >= 1725
        /\ result.final_risk_score <= 9465
        /\ SameFraction(fallback(result.final_risk_score).predicted_duration_years,
                        Frac(120000 - 6 * result.final_risk_score, 10000))
        /\ SameFraction(fallback(result.final_risk_score).attrition_likelihood,
                        Frac(120000 + 25 * result.final_risk_score, 1000000))

\* the riskiest applicant: four conditions, every factor in its highest tier
C27_Witness ==
    /\ Returned
    /\ customer_dict \in ExtremeApplicants
    /\ customer_dict.chronic_conditions = FourConditions
    /\ result.scoring_steps[10].risk_contribution = 950
    /\ result.final_risk_score = 9465

\* 1 for a condition that holds, else 0
Holds(condition) == IF condition THEN 1 ELSE 0

\* how many of the four reducing conditions hold for the call
NumReductions ==
    Holds(customer_dict.age < 250 \/ customer_dict.age > 700)
    + Holds(SumSeq([i \in DOMAIN result.steps |-> result.steps[i].weighted_score]) > 7000)
    + Holds(customer_dict.dangerous_hobbies # T("None"))
    + Holds(/\ customer_dict.chronic_conditions # T("None")
            /\ Len(Split(customer_dict.chronic_conditions)) >= 2)

\* C28: the confidence label depends only on the number of reducing conditions
\* that hold: none "Very High", one "High", two "Moderate", three or four "Low".
C28_LabelByNumberOfReductions ==
    result.status = "labelled" =>
        result.confidence = CASE NumReductions = 0 -> "Very High"
                              [] NumReductions = 1 -> "High"
                              [] NumReductions = 2 -> "Moderate"
                              [] OTHER -> "Low"

\* the one reduction is the risk factor 0.85: still "High"
C28_Witness ==
    /\ result.status = "labelled"
    /\ NumReductions = 1
    /\ SumSeq([i \in DOMAIN result.steps |-> result.steps[i].weighted_score]) > 7000
    /\ result.confidence = "High"

\* what the engine returns for the request
Deterministic == score_customer(engine, customer_dict, today)

\* the endpoint has an insight to go by
InsightAvailable == pattern_analyzer.enabled /\ ~IsError(pattern_analyzer.outcome)

\* low, high, calculated and the score of the response are the engine's
EngineValuesKept ==
    \A engine_result \in {Deterministic} :
        /\ result.annual_premium_low = engine_result.annual_premium_low
        /\ result.annual_premium_high = engine_result.annual_premium_high
        /\ result.annual_premium_calculated = engine_result.annual_premium_calculated
        /\ result.final_risk_score = engine_result.final_risk_score

\* C24 as stated: whatever position the insight suggests, the recommended premium
\* of the response is within [low, high], the other prices and the score are the
\* engine's, and without an insight the recommended premium is the calculated one.
C24_RecommendedWithinBand ==
    Returned =>
        /\ result.annual_premium_low <= result.annual_premium_recommended
        /\ result.annual_premium_recommended <= result.annual_premium_high
        /\ EngineValuesKept
        /\ ~InsightAvailable =>
               result.annual_premium_recommended = result.annual_premium_calculated

\* C24, amended: the recommended premium is between low and high, whichever of
\* the two is the smaller (a negative coverage swaps them); it is the calculated
\* one unless there is an insight and low < high; the other prices and the score
\* are the engine's.
C24_RecommendedBetweenBoundaries ==
    Returned =>
        /\ Min(result.annual_premium_low, result.annual_premium_high)
               <= result.annual_premium_recommended
        /\ result.annual_premium_recommended
               <= Max(result.annual_premium_low, result.annual_premium_high)
        /\ EngineValuesKept
        /\ (~InsightAvailable \/ result.annual_premium_high <= result.annual_premium_low) =>
               result.annual_premium_recommended = result.annual_premium_calculated

\* the insight suggests position 2.5: the recommended premium is the high boundary
C24_Witness ==
    /\ Returned
    /\ InsightAvailable
    /\ pattern_analyzer.outcome.insight.suggested_price_position = Float(250)
    /\ result.annual_premium_low < result.annual_premium_high
    /\ result.annual_premium_recommended = result.annual_premium_high
    /\ result.annual_premium_calculated < result.annual_premium_high

\* analyze_customer_patterns or format_pattern_for_display raises
AnalysisFails ==
    /\ pattern_analyzer.enabled
    /\ \/ IsError(pattern_analyzer.outcome)
       \/ IsError(format_pattern_for_display(pattern_analyzer.outcome.insight))

\* C25: a failure of the AI analysis does not fail the request: the response is
\* the engine's result with ai_pattern_analysis = None; a failure of the engine
\* is an HTTP 500 that carries no result.
C25_AnalysisFailureLeavesResult ==
    Called =>
        \A engine_result \in {Deterministic} :
            IF IsError(engine_result)
            THEN /\ result.status = "error"
                 /\ result.status_code = 500
                 /\ DOMAIN result = {"status", "type", "status_code", "detail"}
            ELSE AnalysisFails =>
                     /\ Returned
                     /\ result.ai_pattern_analysis = NoneValue
                     /\ \A f \in DOMAIN engine_result : result[f] = engine_result[f]

\* C30: a get of the key that was set, made before the entry expires, returns an
\* insight equal to the stored one in every field; made after expiry it returns
\* None and removes the entry; a get of a key never set returns None.
C30_CacheRoundTrip ==
    result.status = "got" =>
        /\ result.key = "e5f6" => result.value = NoneValue
        /\ (previous.status = "set" /\ result.key = previous.key) =>
               IF result.at <= previous.at + previous.ttl
               THEN result.value = previous.value
               ELSE result.value = NoneValue /\ result.key \notin DOMAIN cache_dir

====
